---- MODULE Spec2Model ----
(***************************************************************************)
(* Alias-chain resolution, validation and repair of a design-token export  *)
(* (validate_figma_aliases.py, fix_external_references*.py,                *)
(* fix_all_white_colors.py, fix_figma_variable_colors.py).                 *)
(*                                                                         *)
(* Strings that the code inspects (variable ids, variable names, the       *)
(* entries of a chain path) are sequences of tokens; "/" is a token of its *)
(* own, so that `'/' in s`, s.split('/') and `X in s` are computed on the  *)
(* string and not assumed.  A JSON value is a record [py, d]: py is the    *)
(* Python type of the loaded value and d its content (for a dict, the      *)
(* function from its keys to their values).  Colour channels are integers  *)
(* in units of 1/100000.                                                   *)
(***************************************************************************)
EXTENDS Integers, Sequences, FiniteSets, TLC

VARIABLES
  doc,        \* the loaded document (self.data / data)
  palette,    \* rangde_palettes_rgb: family -> step -> <<r, g, b>>
  before,     \* the document as it was when the last repair pass started
  lastPass,   \* the last repair pass that ran, "none" before any
  stack,      \* call stack of resolve_alias_chain: frames, innermost last
  visited,    \* the one `visited` set object shared by the nested calls
  ret,        \* the value returned by the call that returned last
  pc,         \* "idle" | "run" | "ret" | "done": position of the resolution
  call,       \* the arguments of the top-level resolve_alias_chain call
  report,     \* the dict returned by the last validate_collection, or NoReport
  index,      \* (var_index, collection_index) of build_variable_index, or NoIndex
  chain,      \* the list returned by the last trace_complete_chain, or NoChain
  oklch_string, \* the argument of oklch_to_rgb
  converted,  \* what the last oklch_to_rgb returned or raised, or NotConverted
  memo,       \* the memo table of the memoised resolver
  status      \* what the validator's main returned and printed, or NoStatus

\* the state of the tools beside the validator and the repairs
tools == <<index, chain, oklch_string, converted, memo, status>>

vars == <<doc, palette, before, lastPass, stack, visited, ret, pc, call, report,
          index, chain, oklch_string, converted, memo, status>>

----------------------------------------------------------------------------
(* Bounds *)

\* The call stack of the model is capped here; the cap is above every depth
\* the visited set allows, so it never binds in the program as written.
MaxDepth == 7

----------------------------------------------------------------------------
(* Strings as token sequences *)

Slash == "/"

Last(seq) == seq[Len(seq)]

Min(S) == CHOOSE k \in S : \A j \in S : k <= j

\* `needle in s` for a one-token needle
Contains(s, needle) == \E i \in DOMAIN s : s[i] = needle

\* '/' in alias_id
HasSlash(id) == Contains(id, Slash)

\* f"{tag}: {what}"
Marker(tag, what) == <<tag, ": ">> \o what

----------------------------------------------------------------------------
(* JSON values *)

One == 100000

None == [py |-> "NoneType", d |-> [s |-> "None"]]

Color(r, g, b, a) == [py |-> "dict", d |-> [r |-> r, g |-> g, b |-> b, a |-> a]]

Alias(id) == [py |-> "dict", d |-> [type |-> "VARIABLE_ALIAS", id |-> id]]

\* a JSON null where an id is expected: no string id is written this way
NullId == <<"null">>

\* isinstance(x, str), of the value stored under 'id'
IsStr(x) == x # NullId

EmptyDict == [py |-> "dict", d |-> [k \in {} |-> 0]]

StrValue == [py |-> "str", d |-> [s |-> "x"]]

ZeroValue == [py |-> "int", d |-> [s |-> "0"]]

\* isinstance(value, dict)
IsDict(v) == v.py = "dict"

\* Python truthiness of a loaded JSON value
Truthy(v) ==
  CASE v.py = "dict" -> DOMAIN v.d # {}
    [] v.py = "str" -> v.d.s # ""
    [] v.py = "int" -> v.d.s # "0"
    [] OTHER -> FALSE

\* isinstance(value, dict) and 'r' in value
IsDirectColor(v) == IsDict(v) /\ "r" \in DOMAIN v.d

\* isinstance(value, dict) and value.get('type') == 'VARIABLE_ALIAS'
IsAlias(v) == IsDict(v) /\ "type" \in DOMAIN v.d /\ v.d.type = "VARIABLE_ALIAS"

\* value.get('id', '')
AliasId(v) == IF "id" \in DOMAIN v.d THEN v.d.id ELSE <<>>

\* f"{type(value)}"
TypeRepr(v) == <<"<class '", v.py, "'>">>

----------------------------------------------------------------------------
(* The variable index *)

RECURSIVE AllVariables(_)
AllVariables(colls) ==
  IF colls = <<>> THEN <<>>
  ELSE Head(colls).variables \o AllVariables(Tail(colls))

\* AliasValidator._build_lookups: a later variable with the same id wins
variables_by_id(data) ==
  LET all == AllVariables(data.collections)
      last(i) == CHOOSE k \in DOMAIN all :
                   all[k].id = i /\ \A j \in DOMAIN all : all[j].id = i => j <= k
  IN [i \in {all[k].id : k \in DOMAIN all} |-> all[last(i)]]

----------------------------------------------------------------------------
(* resolve_alias_chain *)

Result(success, value, path) == [success |-> success, value |-> value, path |-> path]

\* an exception that leaves the function instead of a result
Raised(exc) == [raised |-> exc]

IsRaised(r) == "raised" \in DOMAIN r

NoCall == [variable_id |-> <<>>, mode_id |-> ""]

Return(r) == [kind |-> "return", result |-> r, chain_path |-> <<>>, callee |-> NoCall]

\* A nested call that resolves the target in mode "m1" whatever mode_id is
RecurseFixedMode(chain_path, id, mode) ==
  [kind |-> "call", result |-> Result(FALSE, None, <<>>), chain_path |-> chain_path,
   callee |-> [variable_id |-> id, mode_id |-> "m1"]]

\* line 82: the nested call, with the chain_path held meanwhile
Recurse(chain_path, id, mode) ==
  [kind |-> "call", result |-> Result(FALSE, None, <<>>), chain_path |-> chain_path,
   callee |-> [variable_id |-> id, mode_id |-> mode]]

\* A look-up that takes an alias target with "/" for external only when the
\* index does not hold it
ResolveLookupIndexFirst(idx, variable_id, mode_id) ==
  IF variable_id \notin DOMAIN idx
  THEN Return(Result(FALSE, None, <<Marker("NOT_FOUND", variable_id)>>))
  ELSE
    LET variable == idx[variable_id]
        chain_path == <<variable.name>>
        values_by_mode == variable.valuesByMode
    IN
    IF mode_id \notin DOMAIN values_by_mode \/ ~Truthy(values_by_mode[mode_id])
    THEN Return(Result(FALSE, None,
                       chain_path \o <<Marker("NO_VALUE_FOR_MODE", <<mode_id>>)>>))
    ELSE
      LET value == values_by_mode[mode_id] IN
      IF IsDirectColor(value)
      THEN Return(Result(TRUE, value, chain_path))
      ELSE IF IsAlias(value)
      THEN
        LET alias_id == AliasId(value) IN
        IF HasSlash(alias_id) /\ alias_id \notin DOMAIN idx
        THEN Return(Result(FALSE, None,
                           chain_path \o <<Marker("EXTERNAL_REF", alias_id)>>))
        ELSE Recurse(chain_path, alias_id, mode_id)
      ELSE Return(Result(FALSE, None,
                         chain_path \o <<Marker("UNKNOWN_VALUE_TYPE", TypeRepr(value))>>))

\* Lines 55-86 of one activation: the variable is looked up and its value
\* for mode_id decides what is returned, or which nested call is made.
ResolveLookup(idx, variable_id, mode_id) ==
  IF variable_id \notin DOMAIN idx
  THEN Return(Result(FALSE, None, <<Marker("NOT_FOUND", variable_id)>>))
  ELSE
    LET variable == idx[variable_id]
        chain_path == <<variable.name>>
        values_by_mode == variable.valuesByMode
    IN
    IF mode_id \notin DOMAIN values_by_mode \/ ~Truthy(values_by_mode[mode_id])
    THEN Return(Result(FALSE, None,
                       chain_path \o <<Marker("NO_VALUE_FOR_MODE", <<mode_id>>)>>))
    ELSE
      LET value == values_by_mode[mode_id] IN
      IF IsDirectColor(value)
      THEN Return(Result(TRUE, value, chain_path))
      ELSE IF IsAlias(value)
      THEN
        LET alias_id == AliasId(value) IN
        \* line 78: `'/' in alias_id` raises TypeError when the id is null
        IF ~IsStr(alias_id)
        THEN Return(Raised("TypeError"))
        ELSE IF HasSlash(alias_id)
        THEN Return(Result(FALSE, None,
                           chain_path \o <<Marker("EXTERNAL_REF", alias_id)>>))
        ELSE Recurse(chain_path, alias_id, mode_id)
      ELSE Return(Result(FALSE, None,
                         chain_path \o <<Marker("UNKNOWN_VALUE_TYPE", TypeRepr(value))>>))

\* An activation that takes a fresh visited set whatever it was passed
ResolveBodyFreshVisited(idx, variable_id, mode_id, seen) ==
  ResolveLookup(idx, variable_id, mode_id)

\* An activation that tests visited only after the variable's name is on
\* its chain_path
ResolveBodyLateCheck(idx, variable_id, mode_id, seen) ==
  IF variable_id \in seen /\ variable_id \in DOMAIN idx
  THEN Return(Result(FALSE, None,
                     <<idx[variable_id].name, Marker("CIRCULAR", variable_id)>>))
  ELSE ResolveLookup(idx, variable_id, mode_id)

\* One activation of resolve_alias_chain, from its entry to its first return
\* or to the nested call of line 82: what it returns, or what it calls and
\* the chain_path it holds while the call runs.  `seen` is the visited set
\* on entry (lines 44-53).
ResolveBody(idx, variable_id, mode_id, seen) ==
  IF variable_id \in seen
  THEN Return(Result(FALSE, None, <<Marker("CIRCULAR", variable_id)>>))
  ELSE ResolveLookup(idx, variable_id, mode_id)

\* line 83: return (success, final_value, chain_path + sub_chain)
Propagate(chain_path, sub) ==
  IF IsRaised(sub) THEN sub
  ELSE Result(sub.success, sub.value, chain_path \o sub.path)

\* visited after the activation's lines 50-53 (line 51 returns with
\* variable_id in it already)
VisitedAfter(variable_id, seen) == seen \cup {variable_id}

\* The function as a whole, for its callers (validate_collection).
RECURSIVE resolve_alias_chain(_, _, _, _)
resolve_alias_chain(idx, variable_id, mode_id, seen) ==
  LET b == ResolveBody(idx, variable_id, mode_id, seen) IN
  IF b.kind = "return" THEN b.result
  ELSE Propagate(b.chain_path,
                 resolve_alias_chain(idx, b.callee.variable_id, b.callee.mode_id,
                                     VisitedAfter(variable_id, seen)))

----------------------------------------------------------------------------
(* The nested calls of one top-level resolve_alias_chain, step by step *)

NoRet == Result(FALSE, None, <<>>)

\* no validate_collection result is held
NoReport == [collection_name |-> "", error |-> "not run"]

Frame(id, mode) == [variable_id |-> id, mode_id |-> mode, chain_path |-> <<>>]

Top == stack[Len(stack)]

Pop == SubSeq(stack, 1, Len(stack) - 1)

\* resolve_alias_chain(variable_id, mode_id) called with visited=None
CallResolve(variable_id, mode_id) ==
  /\ pc = "idle"
  /\ stack' = <<Frame(variable_id, mode_id)>>
  /\ visited' = {}
  /\ ret' = NoRet
  /\ pc' = "run"
  /\ call' = [variable_id |-> variable_id, mode_id |-> mode_id]
  /\ report' = NoReport
  /\ UNCHANGED <<doc, palette, before, lastPass>>
  /\ UNCHANGED tools

\* The innermost activation runs to its return ...
StepReturn ==
  /\ pc = "run"
  /\ LET b == ResolveBody(variables_by_id(doc), Top.variable_id, Top.mode_id, visited) IN
     /\ b.kind = "return"
     /\ ret' = b.result
     /\ visited' = VisitedAfter(Top.variable_id, visited)
     /\ stack' = Pop
     /\ pc' = IF Len(stack) = 1 THEN "done" ELSE "ret"
  /\ UNCHANGED <<doc, palette, before, lastPass, call, report>>
  /\ UNCHANGED tools

\* ... or to the nested call of line 82
StepCall ==
  /\ pc = "run"
  /\ Len(stack) < MaxDepth
  /\ LET b == ResolveBody(variables_by_id(doc), Top.variable_id, Top.mode_id, visited) IN
     /\ b.kind = "call"
     /\ visited' = VisitedAfter(Top.variable_id, visited)
     /\ stack' = Append([stack EXCEPT ![Len(stack)].chain_path = b.chain_path],
                        Frame(b.callee.variable_id, b.callee.mode_id))
     /\ pc' = "run"
     /\ UNCHANGED ret
  /\ UNCHANGED <<doc, palette, before, lastPass, call, report>>
  /\ UNCHANGED tools

\* The caller resumes at line 83 with the callee's result
StepResume ==
  /\ pc = "ret"
  /\ ret' = Propagate(Top.chain_path, ret)
  /\ stack' = Pop
  /\ pc' = IF Len(stack) = 1 THEN "done" ELSE "ret"
  /\ UNCHANGED <<doc, palette, before, lastPass, call, report, visited>>
  /\ UNCHANGED tools


----------------------------------------------------------------------------
(* resolve_alias_chain with a memo table *)

\* an empty dict
EmptyIndex == [k \in {} |-> 0]

\* d[k] = v
Put(d, k, v) == [x \in DOMAIN d \cup {k} |-> IF x = k THEN v ELSE d[x]]

\* A table keyed by the variable alone
MemoKeyIdOnly(variable_id, mode_id) == <<variable_id>>

\* the key (variable_id, mode_id)
MemoKey(variable_id, mode_id) == <<variable_id, mode_id>>

\* memo[key] = result as the call returns; a call that raises stores nothing
Memoised(table, variable_id, mode_id, result) ==
  IF IsRaised(result) THEN table
  ELSE Put(table, MemoKey(variable_id, mode_id), result)

\* resolve_alias_chain that returns memo[key] when the key is in the table
\* and otherwise runs the body of lines 44-86; result and table together
RECURSIVE resolve_alias_chain_memo(_, _, _, _, _)
resolve_alias_chain_memo(idx, variable_id, mode_id, seen, table) ==
  IF MemoKey(variable_id, mode_id) \in DOMAIN table
  THEN [result |-> table[MemoKey(variable_id, mode_id)], memo |-> table]
  ELSE
    LET b == ResolveBody(idx, variable_id, mode_id, seen) IN
    IF b.kind = "return"
    THEN [result |-> b.result,
          memo |-> Memoised(table, variable_id, mode_id, b.result)]
    ELSE LET sub == resolve_alias_chain_memo(idx, b.callee.variable_id, b.callee.mode_id,
                                             VisitedAfter(variable_id, seen), table)
             r == Propagate(b.chain_path, sub.result)
         IN [result |-> r, memo |-> Memoised(sub.memo, variable_id, mode_id, r)]

\* a top-level call of the memoised resolver, with visited=None
MemoResolve(variable_id, mode_id) ==
  /\ pc = "idle"
  /\ LET r == resolve_alias_chain_memo(variables_by_id(doc), variable_id, mode_id, {}, memo)
     IN /\ ret' = r.result
        /\ memo' = r.memo
  /\ call' = [variable_id |-> variable_id, mode_id |-> mode_id]
  /\ UNCHANGED <<doc, palette, before, lastPass, stack, visited, pc, report,
                 index, chain, oklch_string, converted, status>>

----------------------------------------------------------------------------
(* validate_collection *)

\* d.get(k, default)
Get(d, k, default) == IF k \in DOMAIN d THEN d[k] ELSE default

\* sep.join(parts)
RECURSIVE Join(_, _)
Join(sep, parts) ==
  IF parts = <<>> THEN <<>>
  ELSE IF Len(parts) = 1 THEN parts[1]
  ELSE parts[1] \o <<sep>> \o Join(sep, Tail(parts))

\* the first collection of the document with that name, as a set of indices
\* (empty when there is none)
FindCollection(data, collection_name) ==
  LET cs == data.collections IN
  {i \in DOMAIN cs : cs[i].name = collection_name
                     /\ \A j \in DOMAIN cs : cs[j].name = collection_name => i <= j}

EmptyResults(collection_name) ==
  [collection_name |-> collection_name, total_variables |-> 0, valid_chains |-> 0,
   broken_chains |-> 0, circular_refs |-> 0, external_refs |-> 0,
   white_colors |-> 0, proper_colors |-> 0, broken_examples |-> <<>>]

\* results with results['error'] = msg
WithError(results, msg) ==
  [k \in DOMAIN results \cup {"error"} |-> IF k = "error" THEN msg ELSE results[k]]

\* A white test that asks for alpha 1.0 as well
IsWhiteOpaque(final_value) ==
  /\ Get(final_value.d, "r", 0) = One
  /\ Get(final_value.d, "g", 0) = One
  /\ Get(final_value.d, "b", 0) = One
  /\ Get(final_value.d, "a", 0) = One

\* r == 1.0 and g == 1.0 and b == 1.0 on final_value.get(..., 0)
IsWhite(final_value) ==
  /\ Get(final_value.d, "r", 0) = One
  /\ Get(final_value.d, "g", 0) = One
  /\ Get(final_value.d, "b", 0) = One

\* `tag in chain_path`: the tag as a whole entry of the list
AnyStepIs(chain_path, tag) ==
  \E i \in DOMAIN chain_path : chain_path[i] = <<tag>>

\* any(tag in step for step in chain_path)
AnyStepContains(chain_path, tag) ==
  \E i \in DOMAIN chain_path : Contains(chain_path[i], tag)

MaxExamples == 5

\* An iteration that stores an example while there are five or fewer
ValidateVariableOneMore(idx, mode_id, results, variable) ==
  LET res == resolve_alias_chain(idx, variable.id, mode_id, {})
      r1 == [results EXCEPT !.total_variables = @ + 1]
  IN
  IF IsRaised(res) THEN res
  ELSE IF res.success
  THEN
    LET r2 == [r1 EXCEPT !.valid_chains = @ + 1] IN
    IF Truthy(res.value)
    THEN IF IsWhite(res.value)
         THEN [r2 EXCEPT !.white_colors = @ + 1]
         ELSE [r2 EXCEPT !.proper_colors = @ + 1]
    ELSE r2
  ELSE
    LET r2 == [r1 EXCEPT !.broken_chains = @ + 1]
        r3 == IF AnyStepContains(res.path, "CIRCULAR")
              THEN [r2 EXCEPT !.circular_refs = @ + 1]
              ELSE IF AnyStepContains(res.path, "EXTERNAL_REF")
              THEN [r2 EXCEPT !.external_refs = @ + 1]
              ELSE r2
    IN
    IF Len(r3.broken_examples) <= MaxExamples
    THEN [r3 EXCEPT !.broken_examples =
            Append(@, [variable_name |-> variable.name,
                       chain |-> Join(" -> ", res.path)])]
    ELSE r3

\* One iteration of the loop of lines 120-157
ValidateVariable(idx, mode_id, results, variable) ==
  LET res == resolve_alias_chain(idx, variable.id, mode_id, {})
      r1 == [results EXCEPT !.total_variables = @ + 1]
  IN
  IF IsRaised(res) THEN res
  ELSE IF res.success
  THEN
    LET r2 == [r1 EXCEPT !.valid_chains = @ + 1] IN
    IF Truthy(res.value)
    THEN IF IsWhite(res.value)
         THEN [r2 EXCEPT !.white_colors = @ + 1]
         ELSE [r2 EXCEPT !.proper_colors = @ + 1]
    ELSE r2
  ELSE
    LET r2 == [r1 EXCEPT !.broken_chains = @ + 1]
        r3 == IF AnyStepContains(res.path, "CIRCULAR")
              THEN [r2 EXCEPT !.circular_refs = @ + 1]
              ELSE IF AnyStepContains(res.path, "EXTERNAL_REF")
              THEN [r2 EXCEPT !.external_refs = @ + 1]
              ELSE r2
    IN
    IF Len(r3.broken_examples) < MaxExamples
    THEN [r3 EXCEPT !.broken_examples =
            Append(@, [variable_name |-> variable.name,
                       chain |-> Join(" -> ", res.path)])]
    ELSE r3

RECURSIVE ValidateLoop(_, _, _, _)
ValidateLoop(idx, mode_id, results, variables) ==
  IF variables = <<>> \/ IsRaised(results) THEN results
  ELSE ValidateLoop(idx, mode_id,
                    ValidateVariable(idx, mode_id, results, Head(variables)),
                    Tail(variables))

\* A validation with the mode id of the collection's last declared mode
validate_collection_last_mode(data, collection_name) ==
  LET results == EmptyResults(collection_name)
      found == FindCollection(data, collection_name)
  IN
  IF found = {} THEN WithError(results, "Collection not found")
  ELSE
    LET collection == data.collections[CHOOSE i \in found : TRUE]
        modes == collection.modes
    IN
    IF modes = <<>> THEN WithError(results, "No modes found")
    ELSE ValidateLoop(variables_by_id(data), modes[Len(modes)].modeId, results,
                      collection.variables)

validate_collection(data, collection_name) ==
  LET results == EmptyResults(collection_name)
      found == FindCollection(data, collection_name)
  IN
  IF found = {} THEN WithError(results, "Collection not found")
  ELSE
    LET collection == data.collections[CHOOSE i \in found : TRUE]
        modes == collection.modes
    IN
    IF modes = <<>> THEN WithError(results, "No modes found")
    ELSE ValidateLoop(variables_by_id(data), modes[1].modeId, results,
                      collection.variables)

critical_collections ==
  <<"1 Appearance", "2 Fill emphasis", "3 Background Level", "4 Interaction state",
    "9 Theme", "10 Brand">>

\* validate_all_critical_collections: the report of each critical
\* collection by its name, unless one of the validations raises
validate_all_critical_collections(data) ==
  LET names == {critical_collections[i] : i \in DOMAIN critical_collections}
      all_results == [n \in names |-> validate_collection(data, n)]
  IN IF \E n \in names : IsRaised(all_results[n])
     THEN Raised("TypeError")
     ELSE [all_results |-> all_results]

\* AliasValidator(data).validate_all_critical_collections()
ValidateAll ==
  /\ pc = "idle"
  /\ report = NoReport
  /\ report' = validate_all_critical_collections(doc)
  /\ UNCHANGED <<doc, palette, before, lastPass, stack, visited, ret, pc, call>>
  /\ UNCHANGED tools

\* the sum print_validation_results keeps of one count, over the results
\* without 'error', from the i-th critical collection on
RECURSIVE Total(_, _, _)
Total(all_results, field, i) ==
  IF i > Len(critical_collections) THEN 0
  ELSE LET results == all_results[critical_collections[i]] IN
       (IF "error" \in DOMAIN results THEN 0 ELSE results[field])
         + Total(all_results, field, i + 1)

\* print_validation_results closes with "All collections validated
\* successfully!"
PrintsSuccess(all_results) ==
  Total(all_results, "broken_chains", 1) = 0 /\ Total(all_results, "white_colors", 1) = 0

\* has_issues of main
HasIssues(all_results) ==
  \E n \in DOMAIN all_results :
    \/ Get(all_results[n], "broken_chains", 0) > 0
    \/ Get(all_results[n], "white_colors", 0) > 0

\* main() on a loaded document: the status returned and whether the success
\* message was printed, unless the validation raises
ValidatorMain(data) ==
  LET v == validate_all_critical_collections(data) IN
  IF IsRaised(v) THEN v
  ELSE [returned |-> IF HasIssues(v.all_results) THEN 1 ELSE 0,
        success |-> PrintsSuccess(v.all_results)]

\* main has not run
NoStatus == [returned |-> -1, success |-> FALSE]

\* exit(main())
Main ==
  /\ pc = "idle"
  /\ status = NoStatus
  /\ status' = ValidatorMain(doc)
  /\ UNCHANGED <<doc, palette, before, lastPass, stack, visited, ret, pc, call, report,
                 index, chain, oklch_string, converted, memo>>

\* AliasValidator(data).validate_collection(collection_name)
Validate(collection_name) ==
  /\ pc \in {"idle", "done"}
  /\ report' = validate_collection(doc, collection_name)
  /\ stack' = <<>>
  /\ visited' = {}
  /\ ret' = NoRet
  /\ pc' = "idle"
  /\ call' = NoCall
  /\ UNCHANGED <<doc, palette, before, lastPass>>
  /\ UNCHANGED tools


----------------------------------------------------------------------------
(* String operations of the repair scripts *)

\* `needle in s`
IsSubstring(needle, s) ==
  \E i \in 0..(Len(s) - Len(needle)) : SubSeq(s, i + 1, i + Len(needle)) = needle

\* s.startswith(prefix)
StartsWith(s, prefix) ==
  Len(s) >= Len(prefix) /\ SubSeq(s, 1, Len(prefix)) = prefix

\* s.split('/')
RECURSIVE Split(_)
Split(s) ==
  IF ~HasSlash(s) THEN <<s>>
  ELSE LET i == CHOOSE k \in DOMAIN s : s[k] = Slash /\ \A j \in 1..(k - 1) : s[j] # Slash
       IN <<SubSeq(s, 1, i - 1)>> \o Split(SubSeq(s, i + 1, Len(s)))

\* The tokens names are written with: their lower-case form, whether they
\* are made of \w characters, and the number a run of digits stands for.
LowerToken(t) ==
  CASE t = "Grey" -> "grey"
    [] t = "Indigo" -> "indigo"
    [] t = "Teal" -> "teal"
    [] t = "Surface" -> "surface"
    [] t = "Bold" -> "bold"
    [] t = "Primary" -> "primary"
    [] t = "[Semi semantics]" -> "[semi semantics]"
    [] OTHER -> t

\* s.lower()
Lower(s) == [i \in DOMAIN s |-> LowerToken(s[i])]

DigitValue == [t \in {"1000", "2500"} |-> IF t = "1000" THEN 1000 ELSE 2500]

\* \d+
IsDigits(t) == t \in DOMAIN DigitValue

\* \w+
IsWord(t) == t \in {"Grey", "Indigo", "Teal", "Surface", "Bold", "Primary", "1000", "2500"}

\* \s
IsSpace(t) == t = " "

\* the number of characters of a run of digits
DigitCount(t) == 4

\* the mode ids of a valuesByMode object in the order of its keys
KeyOrder == <<"m1", "m2">>
Keys(values_by_mode) ==
  LET in(m) == m \in DOMAIN values_by_mode IN SelectSeq(KeyOrder, in)

----------------------------------------------------------------------------
(* fix_external_references.py and fix_external_references_v2.py *)

SemiSemantics == "00_Semi semantics"

\* WEIGHT_ALPHA_MAP, in the order of its keys
WEIGHT_ALPHA_MAP ==
  << [key |-> <<"Surface">>, alpha |-> 8000],
     [key |-> <<"Minimal">>, alpha |-> 15000],
     [key |-> <<"Low">>, alpha |-> 55000],
     [key |-> <<"Medium">>, alpha |-> 77000],
     [key |-> <<"High">>, alpha |-> 87000],
     [key |-> <<"Heavy">>, alpha |-> 93000],
     [key |-> <<"Bold">>, alpha |-> 92000],
     [key |-> <<"Bold", " ", "A11Y">>, alpha |-> 100000] >>

get_alpha_for_weight(weight) ==
  LET M == WEIGHT_ALPHA_MAP
      exact == {i \in DOMAIN M : M[i].key = weight}
      partial == {i \in DOMAIN M : IsSubstring(M[i].key, weight)}
  IN IF exact # {} THEN M[CHOOSE i \in exact : TRUE].alpha
     ELSE IF partial # {} THEN M[CHOOSE i \in partial : \A j \in partial : i <= j].alpha
     ELSE 77000

Rgb(r, g, b) == [r |-> r, g |-> g, b |-> b]

\* GREY_RGB / COLOR_RGB_MAP['Grey']
GREY_RGB == Rgb(One, One, One)

\* A test that takes every alias for an external one
HasAnyAlias(var) ==
  \E m \in DOMAIN var.valuesByMode :
    LET value == var.valuesByMode[m] IN
    /\ IsDict(value) /\ "type" \in DOMAIN value.d
    /\ value.d.type = "VARIABLE_ALIAS"

\* A test of the first mode's value only
HasExternalFirstMode(var) ==
  /\ Keys(var.valuesByMode) # <<>>
  /\ LET value == var.valuesByMode[Keys(var.valuesByMode)[1]] IN
     /\ IsDict(value) /\ "type" \in DOMAIN value.d
     /\ value.d.type = "VARIABLE_ALIAS"
     /\ HasSlash(AliasId(value))

\* has_external of both scripts
HasExternal(var) ==
  \E m \in DOMAIN var.valuesByMode :
    LET value == var.valuesByMode[m] IN
    /\ IsDict(value) /\ "type" \in DOMAIN value.d
    /\ value.d.type = "VARIABLE_ALIAS"
    /\ HasSlash(AliasId(value))

\* A colour written as a string instead of an {r, g, b, a} object
NewColorAsString(r, g, b, a) == StrValue

\* the value written over a repaired entry
NewColor(r, g, b, a) == Color(r, g, b, a)

\* A replacement of the external aliases only
ReplaceExternalModes(var, rgb, alpha) ==
  [var EXCEPT !.valuesByMode =
     [m \in DOMAIN var.valuesByMode |->
        IF IsAlias(var.valuesByMode[m]) /\ HasSlash(AliasId(var.valuesByMode[m]))
        THEN NewColor(rgb.r, rgb.g, rgb.b, alpha)
        ELSE var.valuesByMode[m]]]

\* A replacement of the first mode that holds an external alias, and of no
\* other mode
ReplaceFirstExternalMode(var, rgb, alpha) ==
  LET ext(m) == /\ m \in DOMAIN var.valuesByMode
                /\ IsAlias(var.valuesByMode[m])
                /\ HasSlash(AliasId(var.valuesByMode[m]))
      first == SelectSeq(KeyOrder, ext)
  IN [var EXCEPT !.valuesByMode =
        [m \in DOMAIN var.valuesByMode |->
           IF first # <<>> /\ m = Head(first)
           THEN NewColor(rgb.r, rgb.g, rgb.b, alpha)
           ELSE var.valuesByMode[m]]]

\* var with the value of every mode id replaced
ReplaceAllModes(var, rgb, alpha) ==
  [var EXCEPT !.valuesByMode =
     [m \in DOMAIN var.valuesByMode |-> NewColor(rgb.r, rgb.g, rgb.b, alpha)]]

\* extract_rgb_values_from_working_vars: key "<color>/<value_level>" -> rgb
extract_rgb_values_from_working_vars(coll) ==
  LET vs == coll.variables
      direct(i) == {k \in DOMAIN Keys(vs[i].valuesByMode) :
                      IsDirectColor(vs[i].valuesByMode[Keys(vs[i].valuesByMode)[k]])}
      working == {i \in DOMAIN vs :
                    /\ Contains(vs[i].name, "[Semi semantics]")
                    /\ Len(Split(vs[i].name)) >= 2
                    /\ direct(i) # {}}
      key(i) == Split(vs[i].name)[1] \o <<Slash>> \o Split(vs[i].name)[2]
      first(i) == vs[i].valuesByMode[Keys(vs[i].valuesByMode)[Min(direct(i))]]
      last(k) == CHOOSE i \in working : key(i) = k /\ \A j \in working : key(j) = k => j <= i
  IN [k \in {key(i) : i \in working} |->
        Rgb(first(last(k)).d.r, first(last(k)).d.g, first(last(k)).d.b)]

\* get_rgb_for_variable, for a name of two parts or more
get_rgb_for_variable(var_name, rgb_by_color_value) ==
  LET parts == Split(var_name)
      key == parts[1] \o <<Slash>> \o parts[2]
  IN IF key \in DOMAIN rgb_by_color_value THEN rgb_by_color_value[key]
     ELSE GREY_RGB

\* one iteration of the loop of fix_external_references (v1), lines 129-177
FixVariableV1(var, rgb_by_color_value) ==
  IF Contains(var.name, "[Semi semantics]") THEN var
  ELSE IF ~HasExternal(var) THEN var
  ELSE IF Len(Split(var.name)) < 3 THEN var
  ELSE ReplaceAllModes(var, get_rgb_for_variable(var.name, rgb_by_color_value),
                       get_alpha_for_weight(Split(var.name)[3]))

\* COLOR_RGB_MAP, in the order of its keys
COLOR_RGB_MAP ==
  << [key |-> <<"Grey">>, rgb |-> Rgb(One, One, One)],
     [key |-> <<"Indigo">>, rgb |-> Rgb(4000, 0, 20000)],
     [key |-> <<"Saffron">>, rgb |-> Rgb(11000, 2000, 0)],
     [key |-> <<"Green">>, rgb |-> Rgb(0, 7000, 2000)],
     [key |-> <<"Gold">>, rgb |-> Rgb(6000, 5000, 4000)],
     [key |-> <<"Cabbage">>, rgb |-> Rgb(6000, 5000, 4000)],
     [key |-> <<"Orange">>, rgb |-> Rgb(10000, 3000, 0)],
     [key |-> <<"Informative">>, rgb |-> Rgb(0, 5000, 12000)],
     [key |-> <<"Negative">>, rgb |-> Rgb(13000, 0, 1000)],
     [key |-> <<"Positive">>, rgb |-> Rgb(3000, 6000, 3000)],
     [key |-> <<"Warning">>, rgb |-> Rgb(11000, 2000, 0)],
     [key |-> <<"Purple", " ", "[700]">>, rgb |-> Rgb(6000, 5000, 4000)],
     [key |-> <<"Sky", " ", "[1200]">>, rgb |-> Rgb(0, 6000, 10000)],
     [key |-> <<"Sky", " ", "[1000]">>, rgb |-> Rgb(0, 6000, 10000)] >>

get_rgb_for_color(color_name) ==
  LET M == COLOR_RGB_MAP
      exact == {i \in DOMAIN M : M[i].key = color_name}
      partial == {i \in DOMAIN M : StartsWith(color_name, M[i].key)}
  IN IF exact # {} THEN M[CHOOSE i \in exact : TRUE].rgb
     ELSE IF partial # {} THEN M[CHOOSE i \in partial : \A j \in partial : i <= j].rgb
     ELSE M[1].rgb

\* value levels from this one on are given the white of Grey
WhiteLevel == 2100

\* A threshold with a digit dropped
IsWhiteLevelLow(value_level) ==
  /\ Len(value_level) = 1
  /\ IsDigits(value_level[1])
  /\ DigitValue[value_level[1]] >= 210

\* int(value_level) >= 2100, False when int() raises ValueError
IsWhiteLevel(value_level) ==
  /\ Len(value_level) = 1
  /\ IsDigits(value_level[1])
  /\ DigitValue[value_level[1]] >= WhiteLevel

\* one iteration of the loop of fix_external_references (v2), lines 108-162
FixVariableV2(var) ==
  IF Contains(var.name, "[Semi semantics]") THEN var
  ELSE IF ~HasExternal(var) THEN var
  ELSE IF Len(Split(var.name)) < 3 THEN var
  ELSE LET parts == Split(var.name)
           rgb == IF IsWhiteLevel(parts[2]) THEN COLOR_RGB_MAP[1].rgb
                  ELSE get_rgb_for_color(parts[1])
       IN ReplaceAllModes(var, rgb, get_alpha_for_weight(parts[3]))

\* the variables of collection ci, each rewritten by its entry of fixed
RewriteCollection(data, ci, fixed) ==
  [data EXCEPT !.collections[ci].variables = [i \in DOMAIN @ |-> fixed[i]]]

fix_external_references_v1(data) ==
  LET found == FindCollection(data, SemiSemantics) IN
  IF found = {} THEN data
  ELSE LET ci == CHOOSE i \in found : TRUE
           coll == data.collections[ci]
           rgb_by_color_value == extract_rgb_values_from_working_vars(coll)
       IN RewriteCollection(data, ci,
            [i \in DOMAIN coll.variables |->
               FixVariableV1(coll.variables[i], rgb_by_color_value)])

fix_external_references_v2(data) ==
  LET found == FindCollection(data, SemiSemantics) IN
  IF found = {} THEN data
  ELSE LET ci == CHOOSE i \in found : TRUE
           coll == data.collections[ci]
       IN RewriteCollection(data, ci,
            [i \in DOMAIN coll.variables |-> FixVariableV2(coll.variables[i])])

----------------------------------------------------------------------------
(* fix_figma_variable_colors.py and fix_all_white_colors.py *)

\* round(x, 4) of a channel given in units of 1/100000 (ties to even)
Round4(x) ==
  LET q == x \div 10
      rem == x % 10
  IN IF rem < 5 THEN q * 10
     ELSE IF rem > 5 THEN (q + 1) * 10
     ELSE IF q % 2 = 0 THEN q * 10 ELSE (q + 1) * 10

\* A test that takes every direct colour for a placeholder
IsAnyColorValue(mode_value) == IsDirectColor(mode_value)

\* current_r == 1.0 and current_g == 1.0 and current_b == 1.0 of a direct value
IsWhiteValue(mode_value) ==
  /\ IsDirectColor(mode_value)
  /\ Get(mode_value.d, "r", 0) = One
  /\ Get(mode_value.d, "g", 0) = One
  /\ Get(mode_value.d, "b", 0) = One

\* A replacement that is always opaque
RepaintedOpaque(mode_value, rgb) ==
  NewColor(Round4(rgb.r), Round4(rgb.g), Round4(rgb.b), One)

\* the replacement of a white value: rounded palette RGB, alpha kept
Repainted(mode_value, rgb) ==
  NewColor(Round4(rgb.r), Round4(rgb.g), Round4(rgb.b), Get(mode_value.d, "a", One))

\* one iteration of the loop of fix_grey_colors, lines 141-181
FixGreyVariable(var, grey_rgb_palette) ==
  IF ~StartsWith(var.name, <<"Grey", Slash>>) THEN var
  ELSE IF Len(Split(var.name)) < 2 THEN var
  ELSE LET step == Split(var.name)[2] IN
       IF step \notin DOMAIN grey_rgb_palette THEN var
       ELSE [var EXCEPT !.valuesByMode =
               [m \in DOMAIN @ |->
                  IF IsWhiteValue(@[m]) THEN Repainted(@[m], grey_rgb_palette[step])
                  ELSE @[m]]]

fix_grey_colors(data, grey_rgb_palette) ==
  LET found == FindCollection(data, SemiSemantics) IN
  IF found = {} THEN data
  ELSE LET ci == CHOOSE i \in found : TRUE
           coll == data.collections[ci]
       IN RewriteCollection(data, ci,
            [i \in DOMAIN coll.variables |->
               FixGreyVariable(coll.variables[i], grey_rgb_palette)])

SurfaceAlpha == 8000

\* one iteration of the loop of fix_external_references of
\* fix_figma_variable_colors.py, lines 205-244
FixVariableFromPalette(var, rangde_palettes_rgb) ==
  LET name_parts == Split(var.name)
      fixed(mode_value) ==
        IF ~(IsAlias(mode_value) /\ HasSlash(AliasId(mode_value))) THEN mode_value
        ELSE IF Len(name_parts) < 2 THEN mode_value
        ELSE LET palette_name == Lower(name_parts[1])
                 step == name_parts[2]
             IN IF palette_name \in DOMAIN rangde_palettes_rgb
                   /\ step \in DOMAIN rangde_palettes_rgb[palette_name]
                THEN LET rgb == rangde_palettes_rgb[palette_name][step]
                         alpha == IF Contains(Lower(var.name), "surface")
                                  THEN SurfaceAlpha ELSE One
                     IN NewColor(Round4(rgb.r), Round4(rgb.g), Round4(rgb.b), alpha)
                ELSE mode_value
  IN [var EXCEPT !.valuesByMode = [m \in DOMAIN @ |-> fixed(@[m])]]

fix_external_references_palette(data, rangde_palettes_rgb) ==
  LET found == FindCollection(data, SemiSemantics) IN
  IF found = {} THEN data
  ELSE LET ci == CHOOSE i \in found : TRUE
           coll == data.collections[ci]
       IN RewriteCollection(data, ci,
            [i \in DOMAIN coll.variables |->
               FixVariableFromPalette(coll.variables[i], rangde_palettes_rgb)])

\* the length of the run of \w tokens, and of digits, of s from position i on
RECURSIVE WordRun(_, _)
WordRun(s, i) ==
  IF i > Len(s) \/ ~IsWord(s[i]) THEN 0 ELSE 1 + WordRun(s, i + 1)

RECURSIVE DigitRun(_, _)
DigitRun(s, i) ==
  IF i > Len(s) \/ ~IsDigits(s[i]) THEN 0 ELSE 1 + DigitRun(s, i + 1)

known_palettes ==
  << <<"grey">>, <<"indigo">>, <<"gold">>, <<"saffron">>, <<"green">>, <<"red">>, <<"blue">> >>

\* extract_color_info_from_name: [palette_name, step], <<>> standing for None
extract_color_info_from_name(var_name) ==
  LET w == WordRun(var_name, 1)
      d == DigitRun(var_name, w + 2)
      \* ^(\w+)/(\d+)/ and ^(\w+)/(\d+)\s
      matches ==
        /\ w >= 1
        /\ Len(var_name) >= w + 1 /\ var_name[w + 1] = Slash
        /\ d >= 1
        /\ Len(var_name) >= w + d + 2
        /\ (var_name[w + d + 2] = Slash \/ IsSpace(var_name[w + d + 2]))
      known == {k \in DOMAIN known_palettes :
                  StartsWith(Lower(var_name), known_palettes[k] \o <<Slash>>)}
      \* re.search(r'/(\d{3,4})/', var_name)
      steps == {i \in DOMAIN var_name :
                  /\ var_name[i] = Slash
                  /\ i + 2 <= Len(var_name)
                  /\ IsDigits(var_name[i + 1])
                  /\ DigitCount(var_name[i + 1]) \in {3, 4}
                  /\ var_name[i + 2] = Slash}
  IN IF matches
     THEN [palette_name |-> Lower(SubSeq(var_name, 1, w)),
           step |-> SubSeq(var_name, w + 2, w + d + 1)]
     ELSE IF known # {}
     THEN [palette_name |-> known_palettes[Min(known)],
           step |-> IF steps # {} THEN <<var_name[Min(steps) + 1]>> ELSE <<>>]
     ELSE [palette_name |-> <<>>, step |-> <<>>]

\* A repair that builds valuesByMode anew from the repainted entries
FixWhiteVariableRebuilt(var, rangde_palettes_rgb) ==
  LET info == extract_color_info_from_name(var.name)
      palette_name == info.palette_name
      step == info.step
      known == /\ palette_name # <<>> /\ step # <<>>
               /\ palette_name \in DOMAIN rangde_palettes_rgb
               /\ step \in DOMAIN rangde_palettes_rgb[palette_name]
      white == {m \in DOMAIN var.valuesByMode : IsWhiteValue(var.valuesByMode[m]) /\ known}
  IN IF white = {} THEN var
     ELSE [var EXCEPT !.valuesByMode =
             [m \in white |->
                Repainted(var.valuesByMode[m], rangde_palettes_rgb[palette_name][step])]]

\* one iteration of the inner loop of fix_all_white_colors, lines 154-190
FixWhiteVariable(var, rangde_palettes_rgb) ==
  LET info == extract_color_info_from_name(var.name)
      palette_name == info.palette_name
      step == info.step
      known == /\ palette_name # <<>> /\ step # <<>>
               /\ palette_name \in DOMAIN rangde_palettes_rgb
               /\ step \in DOMAIN rangde_palettes_rgb[palette_name]
  IN [var EXCEPT !.valuesByMode =
        [m \in DOMAIN @ |->
           IF IsWhiteValue(@[m]) /\ known
           THEN Repainted(@[m], rangde_palettes_rgb[palette_name][step])
           ELSE @[m]]]

\* A pass over the one collection the earlier script repaired
fix_white_colors_semi_only(data, rangde_palettes_rgb) ==
  LET found == FindCollection(data, SemiSemantics) IN
  IF found = {} THEN data
  ELSE LET ci == CHOOSE i \in found : TRUE
           coll == data.collections[ci]
       IN RewriteCollection(data, ci,
            [i \in DOMAIN coll.variables |->
               FixWhiteVariable(coll.variables[i], rangde_palettes_rgb)])

fix_all_white_colors(data, rangde_palettes_rgb) ==
  [data EXCEPT !.collections =
     [ci \in DOMAIN @ |->
        [@[ci] EXCEPT !.variables =
           [i \in DOMAIN @ |-> FixWhiteVariable(@[i], rangde_palettes_rgb)]]]]

----------------------------------------------------------------------------
(* The repair passes as operations on the loaded document *)

Passes == {"fix_external_references", "fix_external_references_v2",
           "fix_figma_variable_colors.fix_external_references",
           "fix_grey_colors", "fix_all_white_colors"}

RunPass(name, repaired) ==
  /\ pc = "idle"
  /\ before' = doc
  /\ doc' = repaired
  /\ lastPass' = name
  /\ UNCHANGED <<palette, stack, visited, ret, pc, call, report>>
  /\ UNCHANGED tools

FixExternalReferences ==
  RunPass("fix_external_references", fix_external_references_v1(doc))

FixExternalReferencesV2 ==
  RunPass("fix_external_references_v2", fix_external_references_v2(doc))

FixExternalReferencesPalette ==
  RunPass("fix_figma_variable_colors.fix_external_references",
          fix_external_references_palette(doc, palette))

\* main() hands fix_grey_colors rangde_palettes_rgb['grey']
FixGreyColors ==
  /\ <<"grey">> \in DOMAIN palette
  /\ RunPass("fix_grey_colors", fix_grey_colors(doc, palette[<<"grey">>]))

FixAllWhiteColors ==
  RunPass("fix_all_white_colors", fix_all_white_colors(doc, palette))

----------------------------------------------------------------------------
(* deep_alias_trace.py: build_variable_index and trace_complete_chain *)

NoIndex == [var_index |-> "not built"]

NoChain == <<[id |-> <<"not traced">>]>>

\* {**var, 'collection_name': ..., 'collection_id': ..., 'modes': ...}
Annotated(var, collection) ==
  [k \in DOMAIN var \cup {"collection_name", "collection_id", "modes"} |->
     CASE k = "collection_name" -> collection.name
       [] k = "collection_id" -> collection.id
       [] k = "modes" -> collection.modes
       [] OTHER -> var[k]]

\* An index that keeps the first variable recorded under an id
IndexVariableFirstWins(var_index, var, collection) ==
  IF var.id \in DOMAIN var_index THEN var_index
  ELSE Put(var_index, var.id, Annotated(var, collection))

\* var_index[var['id']] = {...}
IndexVariable(var_index, var, collection) ==
  Put(var_index, var.id, Annotated(var, collection))

\* for var in collection.get('variables', []), from the i-th on
RECURSIVE IndexVariables(_, _, _, _)
IndexVariables(var_index, collection, variables, i) ==
  IF i > Len(variables) THEN var_index
  ELSE IndexVariables(IndexVariable(var_index, variables[i], collection),
                      collection, variables, i + 1)

\* for collection in data['collections'], from the ci-th on
RECURSIVE IndexCollections(_, _, _)
IndexCollections(acc, collections, ci) ==
  IF ci > Len(collections) THEN acc
  ELSE LET collection == collections[ci] IN
       IndexCollections(
         [var_index |-> IndexVariables(acc.var_index, collection,
                                       Get(collection, "variables", <<>>), 1),
          collection_index |-> Put(acc.collection_index, collection.id, collection)],
         collections, ci + 1)

build_variable_index(data) ==
  IndexCollections([var_index |-> EmptyIndex, collection_index |-> EmptyIndex],
                   data.collections, 1)

\* f"{x:.3f}" of a channel given in units of 1/100000, as the number printed
Format3(x) ==
  LET q == x \div 100
      rem == x % 100
  IN IF rem < 50 THEN q * 100
     ELSE IF rem > 50 THEN (q + 1) * 100
     ELSE IF q % 2 = 0 THEN q * 100 ELSE (q + 1) * 100

\* f"rgba({value['r']:.3f}, {value['g']:.3f}, {value['b']:.3f}, {value['a']:.3f})"
Rgba(value) ==
  <<"rgba", Format3(value.d.r), Format3(value.d.g), Format3(value.d.b),
    Format3(value.d.a)>>

\* var_index.get(aliased_id, {}).get('name', 'Unknown')
TargetName(var_index, aliased_id) ==
  IF aliased_id \in DOMAIN var_index
  THEN Get(var_index[aliased_id], "name", <<"Unknown">>)
  ELSE <<"Unknown">>

\* the ids of the entries of a chain
ChainIds(entries) == {entries[i].id : i \in DOMAIN entries}

\* One visited set for all the branches: a branch sees what its elder
\* siblings traced
BranchVisitedShared(visited_, traced) == visited_ \cup ChainIds(traced)

\* visited.copy(): a branch sees its ancestors only
BranchVisited(visited_, traced) == visited_

RECURSIVE trace_complete_chain(_, _, _)
RECURSIVE TraceModes(_, _, _, _, _, _)

\* for mode in var['modes'], from the i-th on; values is chain[0]['values']
\* and traced what chain.extend has added so far
TraceModes(var, var_index, visited_, i, values, traced) ==
  IF i > Len(var.modes) THEN [values |-> values, traced |-> traced]
  ELSE
    LET mode_id == var.modes[i].modeId
        mode_name == var.modes[i].name
        by_mode == Get(var, "valuesByMode", EmptyIndex)
    IN
    IF mode_id \notin DOMAIN by_mode
    THEN TraceModes(var, var_index, visited_, i + 1, values, traced)
    ELSE
      LET value == by_mode[mode_id] IN
      IF IsAlias(value)
      THEN LET aliased_id == value.d.id
               sub_chain == trace_complete_chain(aliased_id, var_index,
                                                 BranchVisited(visited_, traced))
           IN TraceModes(var, var_index, visited_, i + 1,
                         Put(values, mode_name,
                             [type |-> "alias", target_id |-> aliased_id,
                              target_name |-> TargetName(var_index, aliased_id)]),
                         traced \o sub_chain)
      ELSE IF IsDirectColor(value)
      THEN TraceModes(var, var_index, visited_, i + 1,
                      Put(values, mode_name, [type |-> "color", rgba |-> Rgba(value)]),
                      traced)
      ELSE TraceModes(var, var_index, visited_, i + 1, values, traced)

trace_complete_chain(var_id, var_index, visited_) ==
  IF var_id \in visited_ \/ var_id \notin DOMAIN var_index THEN <<>>
  ELSE
    LET var == var_index[var_id]
        t == TraceModes(var, var_index, visited_ \cup {var_id}, 1, EmptyIndex, <<>>)
    IN <<[id |-> var_id, name |-> var.name, collection |-> var.collection_name,
          collection_id |-> var.collection_id, type |-> var.resolvedType,
          values |-> t.values]>> \o t.traced

\* var_index, collection_index = build_variable_index(data)
BuildVariableIndex ==
  /\ index = NoIndex
  /\ index' = build_variable_index(doc)
  /\ UNCHANGED <<doc, palette, before, lastPass, stack, visited, ret, pc, call, report,
                 chain, oklch_string, converted, memo, status>>

\* chain = trace_complete_chain(var_id, var_index)
TraceCompleteChain(var_id) ==
  /\ index # NoIndex
  /\ chain' = trace_complete_chain(var_id, index.var_index, {})
  /\ UNCHANGED <<doc, palette, before, lastPass, stack, visited, ret, pc, call, report,
                 index, oklch_string, converted, memo, status>>

----------------------------------------------------------------------------
(* oklch_to_rgb of fix_figma_variable_colors.py / fix_all_white_colors.py *)

(***************************************************************************)
(* The argument is a sequence of tokens: "oklch", "(", ")", "%", " ", ","  *)
(* and the words and numerals between them.  The arithmetic is fixed point *)
(* in units of 1/Unit.  A returned channel is a record [q, e]: q in units  *)
(* of 1/Unit and e the distance of the binary64 result from q/Unit in      *)
(* units of 1/(25 * 2^57), so that 2^-53, the spacing of binary64 below    *)
(* 1.0, is 400.  e is exact where the operands are exact (a channel        *)
(* clamped to 0 or to 1) and below the resolution of q elsewhere.          *)
(***************************************************************************)

Unit == 10000

\* the numerals the test strings are written with, as float() reads them
NumberValue ==
  "-10" :> -10 * Unit @@ "0" :> 0 @@ "50" :> 50 * Unit @@ "100" :> 100 * Unit @@
  "0.1" :> 1000 @@ "0.4" :> 4000 @@
  "30" :> 30 * Unit @@ "90" :> 90 * Unit @@ "180" :> 180 * Unit @@ "270" :> 270 * Unit

\* math.cos(H) and math.sin(H) for H = degrees * math.pi / 180
Cos(degrees) ==
  CASE degrees = 0 -> Unit
    [] degrees = 30 * Unit -> 8660
    [] degrees = 90 * Unit -> 0
    [] degrees = 180 * Unit -> -Unit
    [] degrees = 270 * Unit -> 0

Sin(degrees) ==
  CASE degrees = 0 -> 0
    [] degrees = 30 * Unit -> 5000
    [] degrees = 90 * Unit -> Unit
    [] degrees = 180 * Unit -> 0
    [] degrees = 270 * Unit -> -Unit

\* x * y of two fixed-point numbers
Mul(x, y) == (x * y) \div Unit

\* the largest r in lo..hi with r^k <= n, for k = 2 and k = 3
RECURSIVE Root(_, _, _, _)
Root(n, k, lo, hi) ==
  IF lo >= hi THEN lo
  ELSE LET mid == (lo + hi + 1) \div 2
           p == IF k = 2 THEN mid * mid ELSE mid * mid * mid
       IN IF p <= n THEN Root(n, k, mid, hi) ELSE Root(n, k, lo, mid - 1)

\* val ** (1/2.4) = val^(5/12) for val > 0: the twelfth root by two square
\* roots and a cube root (the last to three decimals), then its fifth power
Pow512(val) ==
  LET s2 == Root(val * Unit, 2, 0, 40000)
      s4 == Root(s2 * Unit, 2, 0, 40000)
      c == Root((s4 \div 10) * 1000000, 3, 0, 1290)
      c2 == (c * c) \div 1000
      c4 == (c2 * c2) \div 1000
      c5 == (c4 * c) \div 1000
  IN c5 * 10

\* the binary64 nearest a decimal literal: 1.055 is 1.055 - 7/(25 * 2^52),
\* 0.055 is 0.055 + 1/(25 * 2^57)
Double1055 == [q |-> 10550, e |-> -224]
Double0055 == [q |-> 550, e |-> 1]

\* the spacing of binary64 at a value between 2^-5 and 2
Ulp(x) ==
  IF x.q > Unit \/ (x.q = Unit /\ x.e >= 0) THEN 800
  ELSE IF 2 * x.q >= Unit THEN 400
  ELSE IF 4 * x.q >= Unit THEN 200
  ELSE IF 8 * x.q >= Unit THEN 100
  ELSE IF 16 * x.q >= Unit THEN 50
  ELSE 25

\* round to nearest binary64
RoundDouble(x) ==
  LET u == Ulp(x) IN [q |-> x.q, e |-> ((2 * x.e + u) \div (2 * u)) * u]

\* A gamma encoding of the value as it is, out of range or not
linear_to_srgb_unclamped(val) ==
  IF val <= 31
  THEN [q |-> (val * 1292) \div 100, e |-> 0]
  ELSE LET p == Pow512(val) IN
       RoundDouble([q |-> Mul(Double1055.q, p) - Double0055.q,
                    e |-> ((Double1055.e * p) \div Unit) - Double0055.e])

\* linear_to_srgb: max(0, min(1, val)), then val * 12.92 at or below
\* 0.0031308 and 1.055 * val ** (1/2.4) - 0.055 above
linear_to_srgb(val) ==
  LET clamped == IF val > Unit THEN Unit ELSE IF val < 0 THEN 0 ELSE val IN
  IF clamped <= 31
  THEN [q |-> (clamped * 1292) \div 100, e |-> 0]
  ELSE LET p == Pow512(clamped) IN
       RoundDouble([q |-> Mul(Double1055.q, p) - Double0055.q,
                    e |-> ((Double1055.e * p) \div Unit) - Double0055.e])

\* lines 51-76: OKLCH -> OKLab -> linear RGB -> sRGB
Convert(L, C, H) ==
  LET a == Mul(C, Cos(H))
      b == Mul(C, Sin(H))
      l_ == L + Mul(3963, a) + Mul(2158, b)
      m_ == L - Mul(1056, a) - Mul(639, b)
      s_ == L - Mul(895, a) - Mul(12915, b)
      l == Mul(Mul(l_, l_), l_)
      m == Mul(Mul(m_, m_), m_)
      s == Mul(Mul(s_, s_), s_)
      r_lin == Mul(40767, l) - Mul(33077, m) + Mul(2310, s)
      g_lin == Mul(26098, m) - Mul(12684, l) - Mul(3413, s)
      b_lin == Mul(17076, s) - Mul(42, l) - Mul(7034, m)
  IN <<linear_to_srgb(r_lin), linear_to_srgb(g_lin), linear_to_srgb(b_lin)>>

\* what oklch_to_rgb returns
Returned(triple) == [rgb |-> triple]

Zero == [q |-> 0, e |-> 0]

\* (0.0, 0.0, 0.0)
Black == Returned(<<Zero, Zero, Zero>>)

\* the end of the match of r'oklch\(([^)]+)\)' at the start of s, 0 if none
MatchEnd(s) ==
  IF Len(s) >= 4 /\ s[1] = "oklch" /\ s[2] = "(" /\ s[3] # ")"
     /\ \E j \in 4..Len(s) : s[j] = ")"
  THEN CHOOSE j \in 4..Len(s) : s[j] = ")" /\ \A i \in 4..(j - 1) : s[i] # ")"
  ELSE 0

\* str.split(): the runs of tokens between the blanks
RECURSIVE SplitBlank(_, _, _)
SplitBlank(s, i, part) ==
  IF i > Len(s) THEN (IF part = <<>> THEN <<>> ELSE <<part>>)
  ELSE IF s[i] = " "
  THEN (IF part = <<>> THEN <<>> ELSE <<part>>) \o SplitBlank(s, i + 1, <<>>)
  ELSE SplitBlank(s, i + 1, Append(part, s[i]))

\* part.rstrip('%')
RECURSIVE RStripPercent(_)
RStripPercent(part) ==
  IF part # <<>> /\ Last(part) = "%"
  THEN RStripPercent(SubSeq(part, 1, Len(part) - 1))
  ELSE part

\* float(part) succeeds
IsFloat(part) == Len(part) = 1 /\ part[1] \in DOMAIN NumberValue

oklch_to_rgb(s) ==
  IF MatchEnd(s) = 0 THEN Black
  ELSE
    LET parts == SplitBlank(SubSeq(s, 3, MatchEnd(s) - 1), 1, <<>>) IN
    IF Len(parts) < 3 THEN Black
    ELSE IF ~IsFloat(RStripPercent(parts[1])) \/ ~IsFloat(parts[2]) \/ ~IsFloat(parts[3])
    THEN Raised("ValueError")
    ELSE Returned(Convert(NumberValue[RStripPercent(parts[1])[1]] \div 100,
                          NumberValue[parts[2][1]],
                          NumberValue[parts[3][1]]))

NotConverted == [none |-> TRUE]

\* rgb = oklch_to_rgb(oklch_value)
OklchToRgb ==
  /\ converted = NotConverted
  /\ converted' = oklch_to_rgb(oklch_string)
  /\ UNCHANGED <<doc, palette, before, lastPass, stack, visited, ret, pc, call, report,
                 index, chain, oklch_string, memo, status>>

----------------------------------------------------------------------------
(* Documents *)

Mode(id, name) == [modeId |-> id, name |-> name]

Variable(id, name, values) ==
  [id |-> id, name |-> name, resolvedType |-> "COLOR", valuesByMode |-> values]

Collection(id, name, modes, variables) ==
  [id |-> id, name |-> name, modes |-> modes, variables |-> variables]

\* marks a mode id the variable has no entry for; never stored in a document
Absent == [py |-> "absent", d |-> [s |-> "absent"]]

\* valuesByMode with the entries that are not Absent
Values(v1, v2) ==
  LET pick(m) == IF m = "m1" THEN v1 ELSE v2 IN
  [m \in {mm \in {"m1", "m2"} : pick(mm) # Absent} |-> pick(m)]

V1 == <<"V1">>
V2 == <<"V2">>
V3 == <<"V3">>
V9 == <<"V9">>
L1 == <<"L", Slash, "1">>
L2 == <<"L", Slash, "2">>

Indigo == Color(4000, 0, 20000, One)
White == Color(One, One, One, One)

WhiteSurface == Color(One, One, One, SurfaceAlpha)

A(n) == <<"A", n>>
F1 == <<"F1">>

ThemeModes == <<Mode("m1", "MyJio"), Mode("m2", "JioHome")>>
SemiModes == <<Mode("m2", "Dark"), Mode("m1", "Light")>>

\* "1 Appearance": eight variables, of which up to seven are broken, with a
\* white of alpha 0.08 among them
Appearance ==
  Collection("VC1", "1 Appearance", <<Mode("m1", "Light")>>,
             <<Variable(A("1"), <<"Fill", " ", "1">>, Values(Alias(V1), Absent)),
               Variable(A("2"), <<"Fill", " ", "2">>, Values(Alias(V2), Absent)),
               Variable(A("3"), <<"Fill", " ", "3">>, Values(WhiteSurface, Absent)),
               Variable(A("4"), <<"Fill", " ", "4">>, Values(Alias(V3), Absent)),
               Variable(A("5"), <<"Fill", " ", "5">>, Values(Alias(L2), Absent)),
               Variable(A("6"), <<"Fill", " ", "6">>, Values(Alias(V2), Absent)),
               Variable(A("7"), <<"Fill", " ", "7">>, Values(Alias(V9), Absent)),
               Variable(A("8"), <<"Fill", " ", "8">>, Values(Alias(V1), Absent))>>)

\* "2 Fill emphasis": a collection that declares no mode
FillEmphasis ==
  Collection("VC2", "2 Fill emphasis", <<>>,
             <<Variable(F1, <<"Emphasis">>, Values(Indigo, Absent))>>)

\* The documents the resolver is run on: "9 Theme" and "00_Semi semantics"
\* with four variables (one of them with an id that carries the "/" marker)
\* and every combination of the values below.
ValidationDoc(a1, a2, b1, b2, c1, c2) ==
  [collections |-> <<
     Collection("VC9", "9 Theme", ThemeModes,
                <<Variable(V1, <<"Primary">>, Values(a1, a2)),
                  Variable(V2, <<"Secondary">>, Values(b1, b2))>>),
     Collection("VC0", "00_Semi semantics", SemiModes,
                <<Variable(V3, <<"Grey", Slash, "2500", Slash, "Surface">>, Values(c1, c2)),
                  Variable(L1, <<"Indigo", Slash, "1000", Slash, "Bold">>,
                           Values(Indigo, Indigo))>>)
   >>]

ValidationDocs ==
  {ValidationDoc(a1, a2, b1, b2, c1, c2) :
     a1 \in {Indigo, White, Alias(V1), Alias(V2), Alias(V3), Alias(V9), Alias(L1),
             Alias(L2), EmptyDict, StrValue, Absent},
     a2 \in {Absent, Alias(V2)},
     b1 \in {Indigo, Alias(V1), Alias(V2), Alias(V3), ZeroValue, Absent},
     b2 \in {Indigo, Alias(V3)},
     c1 \in {Indigo, White, Alias(V1), Alias(L2)},
     c2 \in {White, Alias(V1)}}

\* The documents the validator is run on: those of the resolver, followed
\* by "1 Appearance" and "2 Fill emphasis".
ReportDocs ==
  {[collections |-> d.collections \o <<Appearance, FillEmphasis>>] : d \in ValidationDocs}

\* the arguments the resolver is called with
CallIds == {V1, V2, V3, V9, L1, L2}
CallModes == {"m1", "m2", "m3"}
CollectionNames == {"9 Theme", "00_Semi semantics", "1 Appearance", "2 Fill emphasis",
                    "10 Brand"}

NoPalette == [f \in {} |-> 0]

InitTools ==
  /\ index = NoIndex
  /\ chain = NoChain
  /\ oklch_string = <<>>
  /\ converted = NotConverted
  /\ memo = EmptyIndex
  /\ status = NoStatus

Init ==
  /\ doc \in ReportDocs
  /\ palette = NoPalette
  /\ before = doc
  /\ lastPass = "none"
  /\ stack = <<>>
  /\ visited = {}
  /\ ret = NoRet
  /\ pc = "idle"
  /\ call = NoCall
  /\ report = NoReport
  /\ InitTools

Next ==
  \/ \E id \in CallIds, m \in CallModes : CallResolve(id, m)
  \/ StepReturn
  \/ StepCall
  \/ StepResume
  \/ \E n \in CollectionNames : Validate(n)

Spec == Init /\ [][Next]_vars

\* The resolver alone, called on every document
ResolveNext ==
  \/ \E id \in CallIds, m \in CallModes : CallResolve(id, m)
  \/ StepReturn
  \/ StepCall
  \/ StepResume

InitResolve ==
  /\ doc \in ValidationDocs
  /\ palette = NoPalette
  /\ before = doc
  /\ lastPass = "none"
  /\ stack = <<>>
  /\ visited = {}
  /\ ret = NoRet
  /\ pc = "idle"
  /\ call = NoCall
  /\ report = NoReport
  /\ InitTools

ResolveSpec == InitResolve /\ [][ResolveNext]_vars

\* The documents of the termination check: every mode-m1 alias graph of
\* ValidationDocs, over a mode-m2 graph that is one cycle of three.
CyclicDocs ==
  {d \in ValidationDocs :
     LET idx == variables_by_id(d) IN
     /\ "m2" \in DOMAIN idx[V1].valuesByMode
     /\ idx[V2].valuesByMode["m2"] = Alias(V3)
     /\ idx[V3].valuesByMode["m2"] = Alias(V1)}

InitCyclic ==
  /\ doc \in CyclicDocs
  /\ palette = NoPalette
  /\ before = doc
  /\ lastPass = "none"
  /\ stack = <<>>
  /\ visited = {}
  /\ ret = NoRet
  /\ pc = "idle"
  /\ call = NoCall
  /\ report = NoReport
  /\ InitTools

\* The interpreter runs a started call to its end: a step that can be taken
\* is taken.
FairResolveSpec ==
  /\ InitCyclic
  /\ [][ResolveNext]_vars
  /\ WF_vars(StepReturn) /\ WF_vars(StepCall) /\ WF_vars(StepResume)


----------------------------------------------------------------------------
(* The documents validate_all_critical_collections is run on *)

AliasNull == Alias(NullId)

\* "1 Appearance" and "9 Theme" with two variables each, "2 Fill emphasis"
\* without modes, and the other three critical collections missing
CriticalDoc(n1, x1, x2, f1, t1, t2) ==
  [collections |-> <<
     Collection("VC1", "1 Appearance", <<Mode("m1", "Light")>>,
                <<Variable(A("1"), n1, Values(x1, Absent)),
                  Variable(A("2"), <<"Fill", " ", "2">>, Values(x2, Absent))>>),
     Collection("VC2", "2 Fill emphasis", <<>>,
                <<Variable(F1, <<"Emphasis">>, Values(f1, Absent))>>),
     Collection("VC9", "9 Theme", ThemeModes,
                <<Variable(V1, <<"Primary">>, Values(t1, Indigo)),
                  Variable(V2, <<"Secondary">>, Values(t2, Indigo))>>)
   >>]

CriticalDocs ==
  {CriticalDoc(n1, x1, x2, f1, t1, t2) :
     n1 \in {<<"Fill", " ", "1">>, <<"CIRCULAR", " ", "Economy">>,
             <<"EXTERNAL_REF", " ", "Links">>},
     x1 \in {Indigo, Alias(V1), Alias(L2), StrValue, EmptyDict, AliasNull},
     x2 \in {White, Alias(V2), ZeroValue, Absent},
     f1 \in {Indigo, Alias(V9)},
     t1 \in {Indigo, Alias(V2), Alias(V9), StrValue, AliasNull, Absent},
     t2 \in {Indigo, Alias(V1), EmptyDict, AliasNull}}

InitCritical ==
  /\ doc \in CriticalDocs
  /\ palette = NoPalette
  /\ before = doc
  /\ lastPass = "none"
  /\ stack = <<>>
  /\ visited = {}
  /\ ret = NoRet
  /\ pc = "idle"
  /\ call = NoCall
  /\ report = NoReport
  /\ InitTools

CriticalNext == ValidateAll \/ Main

CriticalSpec == InitCritical /\ [][CriticalNext]_vars

----------------------------------------------------------------------------
(* The documents and palettes the repair passes are run on *)

GreySurface == <<"Grey", Slash, "2500", Slash, "Surface">>
GreyShort == <<"Grey", Slash, "2500">>
IndigoBold == <<"Indigo", Slash, "1000", Slash, "Bold">>
IndigoSemiBold == <<"Indigo", Slash, "1000", Slash, "[Semi semantics]", " ", "Bold">>
PrimaryBold == <<"[Primary]", " ", "Bold">>

\* a white value without the key 'a'
WhiteNoAlpha == [py |-> "dict", d |-> [r |-> One, g |-> One, b |-> One]]

\* "00_Semi semantics" with two variables and two modes, then "9 Theme" with
\* one variable and one mode
RepairDoc(n1, a1, a2, n2, b1, b2, nt, t1) ==
  [collections |-> <<
     Collection("VC0", SemiSemantics, <<Mode("m1", "Light"), Mode("m2", "Dark")>>,
                <<Variable(V1, n1, Values(a1, a2)),
                  Variable(V2, n2, Values(b1, b2))>>),
     Collection("VC9", "9 Theme", <<Mode("m1", "MyJio")>>,
                <<Variable(V3, nt, Values(t1, Absent))>>)
   >>]

RepairDocs ==
  {RepairDoc(n1, a1, a2, n2, b1, b2, nt, t1) :
     n1 \in {GreySurface, IndigoBold, GreyShort},
     a1 \in {White, Indigo, Alias(L2), Alias(V2)},
     a2 \in {WhiteSurface, WhiteNoAlpha, Indigo, Alias(L2)},
     n2 \in {IndigoSemiBold, IndigoBold},
     b1 \in {Indigo, White, Alias(L2), Alias(V3)},
     b2 \in {Indigo, Alias(L2)},
     nt \in {PrimaryBold, GreySurface},
     t1 \in {White, Alias(V1), Alias(V2), Alias(L2)}}

Steps(step, rgb) == [k \in {<<step>>} |-> rgb]

Palette(grey, indigo) ==
  [f \in {<<"grey">>, <<"indigo">>} |-> IF f = <<"grey">> THEN grey ELSE indigo]

\* palettes as convert_palette_to_rgb leaves them: a grey 2500 that is a
\* proper grey, one that rounds to white, and a palette without that step
Palettes ==
  {Palette(Steps("2500", Rgb(14117, 14118, 14125)), Steps("1000", Rgb(20004, 10000, 60006))),
   Palette(Steps("2500", Rgb(99996, 99997, 99999)), Steps("1000", Rgb(20004, 10000, 60006))),
   Palette(Steps("1000", Rgb(60000, 60000, 60000)), Steps("2500", Rgb(1000, 0, 5000)))}

InitRepair ==
  /\ doc \in RepairDocs
  /\ palette \in Palettes
  /\ before = doc
  /\ lastPass = "none"
  /\ stack = <<>>
  /\ visited = {}
  /\ ret = NoRet
  /\ pc = "idle"
  /\ call = NoCall
  /\ report = NoReport
  /\ InitTools

RepairNext ==
  \/ FixExternalReferences
  \/ FixExternalReferencesV2
  \/ FixExternalReferencesPalette
  \/ FixGreyColors
  \/ FixAllWhiteColors

RepairSpec == InitRepair /\ [][RepairNext]_vars

----------------------------------------------------------------------------
(* The documents build_variable_index and trace_complete_chain are run on *)

\* "9 Theme" with two modes and two variables, then "00_Semi semantics" with
\* one mode and one variable whose id may repeat an id of "9 Theme"
TraceDoc(a1, a2, b1, b2, id3, c1) ==
  [collections |-> <<
     Collection("VC9", "9 Theme", ThemeModes,
                <<Variable(V1, <<"Primary">>, Values(a1, a2)),
                  Variable(V2, <<"Secondary">>, Values(b1, b2))>>),
     Collection("VC0", "00_Semi semantics", <<Mode("m1", "Light")>>,
                <<Variable(id3, <<"Grey", Slash, "2500", Slash, "Surface">>,
                           Values(c1, Absent))>>)
   >>]

TraceDocs ==
  {TraceDoc(a1, a2, b1, b2, id3, c1) :
     a1 \in {Indigo, Alias(V2), Alias(V3), Alias(V9)},
     a2 \in {Indigo, Alias(V2), Alias(V3), Absent},
     b1 \in {Indigo, Alias(V1), Alias(V3)},
     b2 \in {Indigo, Alias(V1), Alias(V3)},
     id3 \in {V3, V1, V2},
     c1 \in {Indigo, Alias(V1), Alias(V2)}}

TraceIds == {V1, V2, V3, V9}

InitTrace ==
  /\ doc \in TraceDocs
  /\ palette = NoPalette
  /\ before = doc
  /\ lastPass = "none"
  /\ stack = <<>>
  /\ visited = {}
  /\ ret = NoRet
  /\ pc = "idle"
  /\ call = NoCall
  /\ report = NoReport
  /\ InitTools

TraceNext ==
  \/ BuildVariableIndex
  \/ \E id \in TraceIds : TraceCompleteChain(id)

TraceSpec == InitTrace /\ [][TraceNext]_vars

----------------------------------------------------------------------------
(* The documents the memoised resolver is run on *)

MemoDocs ==
  {ValidationDoc(a1, a2, b1, b2, c1, c2) :
     a1 \in {Indigo, Alias(V2), Alias(V3)},
     a2 \in {Absent, Alias(V2)},
     b1 \in {Indigo, Alias(V1), Alias(V3)},
     b2 \in {Indigo, Alias(V3)},
     c1 \in {Indigo, Alias(V1), Alias(V9)},
     c2 \in {White, Alias(V1)}}

MemoIds == {V1, V2, V3}
MemoModes == {"m1", "m2"}

InitMemo ==
  /\ doc \in MemoDocs
  /\ palette = NoPalette
  /\ before = doc
  /\ lastPass = "none"
  /\ stack = <<>>
  /\ visited = {}
  /\ ret = NoRet
  /\ pc = "idle"
  /\ call = NoCall
  /\ report = NoReport
  /\ InitTools

MemoNext == \E id \in MemoIds, m \in MemoModes : MemoResolve(id, m)

MemoSpec == InitMemo /\ [][MemoNext]_vars

----------------------------------------------------------------------------
(* The strings oklch_to_rgb is called with *)

WellFormedStrings ==
  {<<"oklch", "(", lt, "%", " ", ct, " ", ht, ")">> :
     lt \in {"0", "50", "100", "-10"},
     ct \in {"0", "0.1", "0.4"},
     ht \in {"0", "30", "90", "180", "270"}}

\* no '%', a fourth parameter, text after the call, a word or a unit for a
\* number, two parameters, commas, no blank, another function, upper case,
\* a blank in front, no ")", no parameter, the empty string
OtherStrings ==
  {<<"oklch", "(", lt, " ", "0.1", " ", ht, ")">> :
     lt \in {"0", "50", "100"}, ht \in {"0", "90"}}
  \cup
  {<<"oklch", "(", "50", "%", " ", "0.1", " ", "90", " ", "0.4", ")">>,
   <<"oklch", "(", "50", "%", " ", "0.1", " ", "90", ")", " ", "x">>,
   <<"oklch", "(", "abc", " ", "0", " ", "0", ")">>,
   <<"oklch", "(", "50", "%", " ", "x", " ", "90", ")">>,
   <<"oklch", "(", "50", "%", " ", "0.1", " ", "30", "deg", ")">>,
   <<"oklch", "(", "50", "%", "%", " ", "0.1", " ", "30", ")">>,
   <<"oklch", "(", "50", "%", " ", "0.1", ")">>,
   <<"oklch", "(", "50", "%", ",", "0.1", ",", "90", ")">>,
   <<"oklch", "(", "50", "%", "0.1", "90", ")">>,
   <<"rgb", "(", "50", "%", " ", "0.1", " ", "90", ")">>,
   <<"OKLCH", "(", "50", "%", " ", "0.1", " ", "90", ")">>,
   <<" ", "oklch", "(", "50", "%", " ", "0.1", " ", "90", ")">>,
   <<"oklch", "(", "50", "%", " ", "0.1", " ", "90">>,
   <<"oklch", "(", ")">>,
   <<"oklch", "(", " ", ")">>,
   <<"oklch">>,
   <<>>}

\* a document without collections
NoDocument == [collections |-> <<>>]

InitConvert ==
  /\ doc = NoDocument
  /\ palette = NoPalette
  /\ before = doc
  /\ lastPass = "none"
  /\ stack = <<>>
  /\ visited = {}
  /\ ret = NoRet
  /\ pc = "idle"
  /\ call = NoCall
  /\ report = NoReport
  /\ index = NoIndex
  /\ chain = NoChain
  /\ oklch_string \in WellFormedStrings \cup OtherStrings
  /\ converted = NotConverted
  /\ memo = EmptyIndex
  /\ status = NoStatus

ConvertNext == OklchToRgb

ConvertSpec == InitConvert /\ [][ConvertNext]_vars

----------------------------------------------------------------------------
(* Properties of resolve_alias_chain *)

\* The variable that x's value for mode m sends the resolver to: the id of a
\* local alias (no "/" in it), and <<>> when x is not indexed or holds
\* anything else for m.
ChainNext(idx, x, m) ==
  IF x \in DOMAIN idx /\ m \in DOMAIN idx[x].valuesByMode
  THEN LET val == idx[x].valuesByMode[m] IN
       IF val.py = "dict" /\ DOMAIN val.d = {"type", "id"}
          /\ val.d.type = "VARIABLE_ALIAS" /\ ~(\E i \in DOMAIN val.d.id : val.d.id[i] = "/")
       THEN val.d.id
       ELSE <<>>
  ELSE <<>>

\* the k-th variable after x on its mode-m chain
RECURSIVE ChainAt(_, _, _, _)
ChainAt(idx, x, m, k) ==
  IF k = 0 THEN x ELSE ChainNext(idx, ChainAt(idx, x, m, k - 1), m)

\* the lengths of the alias walks that lead from v back to v
Returns(idx, v, m) ==
  {k \in 1..Cardinality(DOMAIN idx) : ChainAt(idx, v, m, k) = v}

IsResult(r) ==
  /\ r.success \in BOOLEAN
  /\ Len(r.path) >= 1
  /\ r.success => r.value.py = "dict" /\ "r" \in DOMAIN r.value.d
  /\ ~r.success => r.value = None /\ Len(Last(r.path)) >= 2 /\ Last(r.path)[2] = ": "

\* C1: every started top-level call of resolve_alias_chain, on every document
\* (alias graphs with self-aliases and longer cycles included), comes to its
\* end, and what it returns is a (success, value, path) triple.
C1_Terminates ==
  /\ [](pc \in {"run", "ret"} => <>(pc = "done"))
  /\ [](pc = "done" => IsResult(ret))

\* a call that ran into a cycle its own variable is not part of has returned
C1_Witness ==
  /\ pc = "done"
  /\ Last(ret.path)[1] = "CIRCULAR"
  /\ Last(ret.path) # Marker("CIRCULAR", call.variable_id)

\* C2: when the mode-m chain of v leads back to v, the call fails, its path
\* ends in the CIRCULAR marker of v, and before the marker it holds the names
\* of the variables of the cycle in order, v's own at the first place only.
C2_CircularPath ==
  pc = "done" =>
    LET idx == variables_by_id(doc)
        v == call.variable_id
        m == call.mode_id
    IN Returns(idx, v, m) # {} =>
         LET k == Min(Returns(idx, v, m)) IN
         /\ ret.success = FALSE
         /\ Len(ret.path) = k + 1
         /\ ret.path[k + 1] = <<"CIRCULAR", ": ">> \o v
         /\ \A i \in 1..k :
              /\ ret.path[i] = idx[ChainAt(idx, v, m, i - 1)].name
              /\ (ChainAt(idx, v, m, i - 1) = v) <=> (i = 1)
         /\ Cardinality({i \in 1..k : ret.path[i] = idx[v].name}) = 1

\* a call on a variable of a cycle of three has returned
C2_Witness ==
  /\ pc = "done"
  /\ Returns(variables_by_id(doc), call.variable_id, call.mode_id) # {}
  /\ Min(Returns(variables_by_id(doc), call.variable_id, call.mode_id)) = 3
  /\ Len(ret.path) = 4


\* the tag of the marker a failed path ends in, and the id or mode it names
LastTag(r) == Last(r.path)[1]
LastWhat(r) == SubSeq(Last(r.path), 3, Len(Last(r.path)))

\* the indexed variable the top-level call was made on holds, for the call's
\* mode, an alias to an id with "/" in it
CallHoldsForeignAlias ==
  LET idx == variables_by_id(doc) IN
  /\ call.variable_id \in DOMAIN idx
  /\ call.mode_id \in DOMAIN idx[call.variable_id].valuesByMode
  /\ LET val == idx[call.variable_id].valuesByMode[call.mode_id] IN
     /\ val.py = "dict" /\ DOMAIN val.d = {"type", "id"}
     /\ val.d.type = "VARIABLE_ALIAS"
     /\ \E i \in DOMAIN val.d.id : val.d.id[i] = "/"

\* C3: when two variables of the validated collection alias each other in the
\* collection's first mode, the report counts both in broken_chains and in
\* circular_refs, and lists both with a chain that shows the cycle.
C3_MutualAliases ==
  \A ci \in DOMAIN doc.collections :
    LET c == doc.collections[ci]
        m == c.modes[1].modeId
        aliases(i, j) ==
          /\ m \in DOMAIN c.variables[i].valuesByMode
          /\ c.variables[i].valuesByMode[m] =
               [py |-> "dict", d |-> [type |-> "VARIABLE_ALIAS", id |-> c.variables[j].id]]
        mutual == {i \in DOMAIN c.variables :
                     \E j \in DOMAIN c.variables : j # i /\ aliases(i, j) /\ aliases(j, i)}
    IN
    (report.collection_name = c.name /\ "error" \notin DOMAIN report) =>
      /\ report.broken_chains >= Cardinality(mutual)
      /\ report.circular_refs >= Cardinality(mutual)
      /\ \A i \in mutual :
           \E e \in DOMAIN report.broken_examples :
             /\ report.broken_examples[e].variable_name = c.variables[i].name
             /\ \E t \in DOMAIN report.broken_examples[e].chain :
                  report.broken_examples[e].chain[t] = "CIRCULAR"

\* a collection with a mutually aliasing pair has been validated
C3_Witness ==
  /\ report.collection_name = "9 Theme"
  /\ "error" \notin DOMAIN report
  /\ report.circular_refs = 2
  /\ report.broken_chains = 2

\* C4 as stated: an alias to an id with "/" fails with EXTERNAL_REF, and
\* NOT_FOUND names only ids without "/" that the index does not hold.
C4_AsStated ==
  pc = "done" =>
    /\ CallHoldsForeignAlias => ~ret.success /\ LastTag(ret) = "EXTERNAL_REF"
    /\ (~ret.success /\ LastTag(ret) = "NOT_FOUND") =>
         /\ LastWhat(ret) \notin DOMAIN variables_by_id(doc)
         /\ ~(\E i \in DOMAIN LastWhat(ret) : LastWhat(ret)[i] = "/")

\* C4, amended: an alias to an id with "/" fails with EXTERNAL_REF whether or
\* not the index holds that id; NOT_FOUND names only ids the index does not
\* hold, and an alias target it names has no "/" (the id of the top-level
\* call is looked up without that test).
C4_ExternalNotNotFound ==
  pc = "done" =>
    /\ CallHoldsForeignAlias =>
         /\ ~ret.success
         /\ LastTag(ret) = "EXTERNAL_REF"
         /\ Len(ret.path) = 2
    /\ (~ret.success /\ LastTag(ret) = "EXTERNAL_REF") =>
         \E i \in DOMAIN LastWhat(ret) : LastWhat(ret)[i] = "/"
    /\ (~ret.success /\ LastTag(ret) = "NOT_FOUND") =>
         /\ LastWhat(ret) \notin DOMAIN variables_by_id(doc)
         /\ Len(ret.path) > 1 => ~(\E i \in DOMAIN LastWhat(ret) : LastWhat(ret)[i] = "/")

\* an alias to the indexed id L/1 has been resolved
C4_Witness ==
  /\ pc = "done"
  /\ CallHoldsForeignAlias
  /\ LastWhat(ret) = L1
  /\ L1 \in DOMAIN variables_by_id(doc)

\* C5: every nested call is made for the mode id of the top-level call, and
\* when v holds a local alias to t for mode m the call returns the success
\* flag and value of resolving t for m with v visited, and v's name followed
\* by the path of t.
C5_SameMode ==
  /\ \A i \in DOMAIN stack : stack[i].mode_id = call.mode_id
  /\ pc = "done" =>
       LET idx == variables_by_id(doc)
           v == call.variable_id
           m == call.mode_id
           t == ChainNext(idx, v, m)
       IN t # <<>> =>
            LET sub == resolve_alias_chain(idx, t, m, {v}) IN
            /\ ret.success = sub.success
            /\ ret.value = sub.value
            /\ ret.path = <<idx[v].name>> \o sub.path
            /\ ret.success => \E k \in 1..Cardinality(DOMAIN idx) :
                                 ret.value = idx[ChainAt(idx, v, m, k)].valuesByMode[m]

\* a mode-m2 chain of two aliases has been resolved to a colour
C5_Witness ==
  /\ pc = "done"
  /\ call.mode_id = "m2"
  /\ ret.success
  /\ Len(ret.path) = 3

\* C6 as stated: NO_VALUE_FOR_MODE exactly when the variable has no entry for
\* the mode; an entry that is neither a colour nor an alias gives
\* UNKNOWN_VALUE_TYPE.
C6_AsStated ==
  pc = "done" =>
    LET idx == variables_by_id(doc)
        v == call.variable_id
        m == call.mode_id
    IN v \in DOMAIN idx =>
         LET present == m \in DOMAIN idx[v].valuesByMode IN
         /\ (~ret.success /\ Len(ret.path) = 2 /\ LastTag(ret) = "NO_VALUE_FOR_MODE")
              <=> ~present
         /\ (present /\ DOMAIN idx[v].valuesByMode[m].d \notin
                          {{"r", "g", "b", "a"}, {"type", "id"}})
              => (~ret.success /\ LastTag(ret) = "UNKNOWN_VALUE_TYPE")


----------------------------------------------------------------------------
(* Properties of the repair passes *)

ExternalPasses == {"fix_external_references", "fix_external_references_v2"}

\* the places of the variables of a document
Places(d) ==
  {<<ci, vi>> : ci \in DOMAIN d.collections, vi \in 1..2} \cap
  {p \in (1..2) \X (1..2) : p[1] \in DOMAIN d.collections
                            /\ p[2] \in DOMAIN d.collections[p[1]].variables}

VarAt(d, p) == d.collections[p[1]].variables[p[2]]

FirstModeAt(d, p) == d.collections[p[1]].modes[1].modeId

\* what validation resolves for the variable at place p
ResolveAt(d, p) ==
  resolve_alias_chain(variables_by_id(d), VarAt(d, p).id, FirstModeAt(d, p), {})

\* validation finds the variable at p resolved, and to r = g = b = 1.0
WhiteAt(d, p) ==
  LET r == ResolveAt(d, p) IN
  r.success /\ r.value.d.r = One /\ r.value.d.g = One /\ r.value.d.b = One

\* the variable whose value ends the chain of the variable at p: the one
\* holding the colour of a resolved chain (back = 1), or the one holding the
\* value a failed chain stops at (back = 2, the marker being the last entry)
HolderAt(d, p, back) ==
  LET idx == variables_by_id(d) IN
  idx[ChainAt(idx, VarAt(d, p).id, FirstModeAt(d, p), Len(ResolveAt(d, p).path) - back)]

Semi(d) == d.collections[CHOOSE ci \in DOMAIN d.collections :
                           d.collections[ci].name = "00_Semi semantics"]

PartCount(name) == Cardinality({i \in DOMAIN name : name[i] = "/"}) + 1

HoldsForeignAlias(var) ==
  \E m \in DOMAIN var.valuesByMode :
    LET val == var.valuesByMode[m] IN
    /\ val.py = "dict" /\ DOMAIN val.d = {"type", "id"}
    /\ val.d.type = "VARIABLE_ALIAS"
    /\ \E i \in DOMAIN val.d.id : val.d.id[i] = "/"

\* the external-reference passes (v1, v2) leave this variable alone
SkippedByExternalPass(d, var) ==
  \/ ~(\E vi \in DOMAIN Semi(d).variables : Semi(d).variables[vi] = var)
  \/ \E i \in DOMAIN var.name : var.name[i] = "[Semi semantics]"
  \/ PartCount(var.name) < 3

\* C7: after a repair pass every variable whose first-mode chain resolved
\* before the pass still resolves, to a direct colour, and every value the
\* pass changed is now a direct colour {r, g, b, a}.
C7_ValidStaysValid ==
  lastPass # "none" =>
    /\ \A p \in Places(before) :
         ResolveAt(before, p).success =>
           /\ ResolveAt(doc, p).success
           /\ ResolveAt(doc, p).value.py = "dict"
           /\ DOMAIN ResolveAt(doc, p).value.d = {"r", "g", "b", "a"}
    /\ \A p \in Places(before) :
         \A m \in DOMAIN VarAt(before, p).valuesByMode :
           VarAt(doc, p).valuesByMode[m] # VarAt(before, p).valuesByMode[m] =>
             /\ VarAt(doc, p).valuesByMode[m].py = "dict"
             /\ DOMAIN VarAt(doc, p).valuesByMode[m].d = {"r", "g", "b", "a"}

\* a pass has rewritten a variable whose first-mode chain was valid
C7_Witness ==
  /\ lastPass # "none"
  /\ \E p \in Places(before) :
       /\ ResolveAt(before, p).success
       /\ VarAt(doc, p).valuesByMode[FirstModeAt(doc, p)] #
            VarAt(before, p).valuesByMode[FirstModeAt(doc, p)]

PaletteColor(name) ==
  LET info == extract_color_info_from_name(name) IN
  IF /\ info.palette_name # <<>> /\ info.step # <<>>
     /\ info.palette_name \in DOMAIN palette
     /\ info.step \in DOMAIN palette[info.palette_name]
  THEN palette[info.palette_name][info.step]
  ELSE <<>>

RoundsToWhite(rgb) == Round4(rgb.r) = One /\ Round4(rgb.g) = One /\ Round4(rgb.b) = One

\* C9 as stated: no variable that was classified white before
\* fix_all_white_colors is classified white after it.
C9_AsStated ==
  lastPass = "fix_all_white_colors" =>
    \A p \in Places(before) : WhiteAt(before, p) => ~WhiteAt(doc, p)

\* C9, amended: a variable classified white after fix_all_white_colors was
\* white before, and the white value its chain ends at belongs to a variable
\* whose name gives no palette family and step found in the palette, or
\* whose palette colour rounds to r = g = b = 1.0; white_colors grows for no
\* collection.
C9_WhiteLeft ==
  lastPass = "fix_all_white_colors" =>
    /\ \A p \in Places(doc) :
         WhiteAt(doc, p) =>
           /\ WhiteAt(before, p)
           /\ \/ PaletteColor(HolderAt(doc, p, 1).name) = <<>>
              \/ RoundsToWhite(PaletteColor(HolderAt(doc, p, 1).name))
    /\ \A n \in {"00_Semi semantics", "9 Theme"} :
         validate_collection(doc, n).white_colors
           <= validate_collection(before, n).white_colors

\* a white variable of "9 Theme" is no longer white after the pass
C9_Witness ==
  /\ lastPass = "fix_all_white_colors"
  /\ WhiteAt(before, <<2, 1>>)
  /\ ~WhiteAt(doc, <<2, 1>>)
  /\ ResolveAt(doc, <<2, 1>>).success

\* C10 as stated: an external-reference pass increases white_colors for no
\* collection.
C10_AsStated ==
  lastPass \in ExternalPasses =>
    \A n \in {"00_Semi semantics", "9 Theme"} :
      validate_collection(doc, n).white_colors
        <= validate_collection(before, n).white_colors

\* C10, amended: a variable that is white after an external-reference pass
\* and was not before has its chain ending at a variable the pass repaired
\* with the white RGB: in v2 one of the Grey family, of a family without a
\* table entry or of a value level of 2100 or more; in v1 one whose
\* family/level has no working "[Semi semantics]" colour, or a white one.
C10_WhiteByRule ==
  lastPass \in ExternalPasses =>
    \A p \in Places(doc) :
      (WhiteAt(doc, p) /\ ~WhiteAt(before, p)) =>
        LET h == HolderAt(doc, p, 1)
            parts == Split(h.name)
            working == extract_rgb_values_from_working_vars(Semi(before))
            key == parts[1] \o <<"/">> \o parts[2]
        IN
        /\ \E vi \in DOMAIN Semi(doc).variables :
             /\ Semi(doc).variables[vi] = h
             /\ Semi(before).variables[vi] # h
             /\ HoldsForeignAlias(Semi(before).variables[vi])
        /\ lastPass = "fix_external_references_v2" =>
             \/ parts[1] = <<"Grey">>
             \/ \A i \in DOMAIN COLOR_RGB_MAP :
                  ~StartsWith(parts[1], COLOR_RGB_MAP[i].key)
             \/ /\ Len(parts[2]) = 1 /\ parts[2][1] \in DOMAIN DigitValue
                /\ DigitValue[parts[2][1]] >= 2100
        /\ lastPass = "fix_external_references" =>
             \/ key \notin DOMAIN working
             \/ working[key] = [r |-> One, g |-> One, b |-> One]

\* the v2 pass has made a variable white that was not
C10_Witness ==
  /\ lastPass = "fix_external_references_v2"
  /\ validate_collection(doc, "00_Semi semantics").white_colors
       > validate_collection(before, "00_Semi semantics").white_colors


WhitePasses == {"fix_grey_colors", "fix_all_white_colors"}

\* the place of "00_Semi semantics" in the document
SemiAt(d) == CHOOSE ci \in DOMAIN d.collections :
               d.collections[ci].name = "00_Semi semantics"

IsGreyName(name) == Len(name) >= 3 /\ name[1] = "Grey" /\ name[2] = "/"

IsWhiteColor(val) ==
  /\ val.py = "dict" /\ {"r", "g", "b"} \subseteq DOMAIN val.d
  /\ val.d.r = One /\ val.d.g = One /\ val.d.b = One

\* rgb rounded to four decimals, with the alpha of old (1.0 when it has none)
PaintOver(old, rgb) ==
  [py |-> "dict",
   d |-> [r |-> Round4(rgb.r), g |-> Round4(rgb.g), b |-> Round4(rgb.b),
          a |-> IF "a" \in DOMAIN old.d THEN old.d.a ELSE One]]

\* the variable at p is named Grey/<step>/..., is one of "00_Semi semantics",
\* holds a white direct colour for m, and the palette has grey.<step>
GreyPlaceholder(d, p, m) ==
  LET var == VarAt(d, p) IN
  /\ p[1] = SemiAt(d)
  /\ IsGreyName(var.name) /\ PartCount(var.name) >= 3
  /\ IsWhiteColor(var.valuesByMode[m])
  /\ <<"grey">> \in DOMAIN palette
  /\ Split(var.name)[2] \in DOMAIN palette[<<"grey">>]

\* C11 as stated: the white-placeholder repairs repaint the white values of
\* the Grey/<step>/... variables of "00_Semi semantics" that have a palette
\* entry, alpha kept, and change the value of no other variable.
C11_AsStated ==
  lastPass \in WhitePasses =>
    \A p \in Places(before) : \A m \in DOMAIN VarAt(before, p).valuesByMode :
      LET old == VarAt(before, p).valuesByMode[m]
          new == VarAt(doc, p).valuesByMode[m]
      IN
      /\ GreyPlaceholder(before, p, m) =>
           new = PaintOver(old, palette[<<"grey">>][Split(VarAt(before, p).name)[2]])
      /\ new # old => p[1] = SemiAt(before) /\ IsGreyName(VarAt(before, p).name)

\* C11, amended: the white-placeholder repairs replace r, g, b of such a
\* value by the palette RGB rounded to four decimals and keep its alpha (1.0
\* when it had none); the only values they change are white direct colours
\* of variables with a palette entry: for fix_grey_colors those of the
\* Grey/<step> variables of "00_Semi semantics", for fix_all_white_colors
\* those of any variable of any collection whose name yields a palette name
\* and a step found in the palettes.
C11_WhiteRepainted ==
  lastPass \in WhitePasses =>
    \A p \in Places(before) : \A m \in DOMAIN VarAt(before, p).valuesByMode :
      LET var == VarAt(before, p)
          old == var.valuesByMode[m]
          new == VarAt(doc, p).valuesByMode[m]
      IN
      /\ GreyPlaceholder(before, p, m) =>
           new = PaintOver(old, palette[<<"grey">>][Split(var.name)[2]])
      /\ new # old =>
           /\ IsWhiteColor(old)
           /\ lastPass = "fix_grey_colors" =>
                /\ p[1] = SemiAt(before) /\ IsGreyName(var.name)
                /\ Split(var.name)[2] \in DOMAIN palette[<<"grey">>]
                /\ new = PaintOver(old, palette[<<"grey">>][Split(var.name)[2]])
           /\ lastPass = "fix_all_white_colors" =>
                /\ PaletteColor(var.name) # <<>>
                /\ new = PaintOver(old, PaletteColor(var.name))

\* fix_grey_colors has repainted the white of Grey/2500/Surface whose alpha
\* is 0.08
C11_Witness ==
  /\ lastPass = "fix_grey_colors"
  /\ GreyPlaceholder(before, <<1, 1>>, "m2")
  /\ VarAt(before, <<1, 1>>).valuesByMode["m2"] = Color(One, One, One, 8000)
  /\ VarAt(doc, <<1, 1>>).valuesByMode["m2"].d.a = 8000
  /\ ~IsWhiteColor(VarAt(doc, <<1, 1>>).valuesByMode["m2"])


IsRgba(val) == val.py = "dict" /\ DOMAIN val.d = {"r", "g", "b", "a"}

\* C12: in fix_external_references (v1, v2) a variable of "00_Semi semantics"
\* that is repaired, having an external alias in some mode, ends up with one
\* and the same direct colour {r, g, b, a} under every one of its mode ids,
\* those that held a direct colour or a local alias included.
C12_AllModesReplaced ==
  lastPass \in ExternalPasses =>
    \A vi \in DOMAIN Semi(before).variables :
      LET old == Semi(before).variables[vi]
          new == Semi(doc).variables[vi]
      IN
      /\ new # old => HoldsForeignAlias(old)
      /\ (HoldsForeignAlias(old) /\ ~SkippedByExternalPass(before, old)) =>
           /\ DOMAIN new.valuesByMode = DOMAIN old.valuesByMode
           /\ \A m \in DOMAIN new.valuesByMode :
                /\ IsRgba(new.valuesByMode[m])
                /\ \A n \in DOMAIN new.valuesByMode :
                     new.valuesByMode[n] = new.valuesByMode[m]

\* v1 has repaired a variable that held a local alias for m1 and an external
\* one for m2
C12_Witness ==
  /\ lastPass = "fix_external_references"
  /\ VarAt(before, <<1, 1>>).valuesByMode["m1"] = Alias(V2)
  /\ HoldsForeignAlias(VarAt(before, <<1, 1>>))
  /\ IsRgba(VarAt(doc, <<1, 1>>).valuesByMode["m1"])
  /\ VarAt(doc, <<1, 1>>).valuesByMode["m2"] = VarAt(doc, <<1, 1>>).valuesByMode["m1"]

\* the palette colour a white-placeholder pass has for the variable at p,
\* <<>> when it has none
ReplacementAt(d, p) ==
  LET var == VarAt(d, p) IN
  IF lastPass = "fix_grey_colors"
  THEN IF /\ p[1] = SemiAt(d) /\ IsGreyName(var.name)
          /\ Split(var.name)[2] \in DOMAIN palette[<<"grey">>]
       THEN palette[<<"grey">>][Split(var.name)[2]]
       ELSE <<>>
  ELSE PaletteColor(var.name)

\* C13 as stated: a variable repaired because of a white placeholder has the
\* replacement colour under every one of its mode ids.
C13_AsStated ==
  lastPass \in WhitePasses =>
    \A p \in Places(before) :
      VarAt(doc, p) # VarAt(before, p) =>
        \A m \in DOMAIN VarAt(doc, p).valuesByMode :
          LET new == VarAt(doc, p).valuesByMode[m]
              rgb == ReplacementAt(before, p)
          IN /\ new.py = "dict" /\ {"r", "g", "b"} \subseteq DOMAIN new.d
             /\ new.d.r = Round4(rgb.r) /\ new.d.g = Round4(rgb.g)
             /\ new.d.b = Round4(rgb.b)

\* C13, amended: when a variable is repaired because of a white placeholder
\* (fix_grey_colors, fix_all_white_colors), the replacement colour overwrites
\* the value of exactly the mode ids whose value was a white direct colour;
\* the values of its other mode ids (other colours, aliases) are kept.
C13_OnlyWhiteModes ==
  lastPass \in WhitePasses =>
    \A p \in Places(before) :
      VarAt(doc, p) # VarAt(before, p) =>
        /\ ReplacementAt(before, p) # <<>>
        /\ \A m \in DOMAIN VarAt(before, p).valuesByMode :
             LET old == VarAt(before, p).valuesByMode[m]
                 new == VarAt(doc, p).valuesByMode[m]
             IN IF IsWhiteColor(old)
                THEN new = PaintOver(old, ReplacementAt(before, p))
                ELSE new = old

\* fix_all_white_colors has repainted the white of one mode and kept the
\* colour, or the alias, of the other
C13_Witness ==
  /\ lastPass = "fix_all_white_colors"
  /\ VarAt(before, <<1, 1>>).valuesByMode["m1"] = White
  /\ ~IsWhiteColor(VarAt(before, <<1, 1>>).valuesByMode["m2"])
  /\ VarAt(doc, <<1, 1>>).valuesByMode["m1"] # White
  /\ VarAt(doc, <<1, 1>>).valuesByMode["m2"] = VarAt(before, <<1, 1>>).valuesByMode["m2"]


\* validation classifies the variable at p Circular
CircularAt(d, p) ==
  /\ ~ResolveAt(d, p).success
  /\ LastTag(ResolveAt(d, p)) = "CIRCULAR"

IsForeignAlias(val) ==
  /\ val.py = "dict" /\ DOMAIN val.d = {"type", "id"}
  /\ val.d.type = "VARIABLE_ALIAS"
  /\ \E i \in DOMAIN val.d.id : val.d.id[i] = "/"

\* C14 as stated: a variable whose alias chain is classified Circular has
\* the same valuesByMode after a repair pass as before.
C14_AsStated ==
  lastPass # "none" =>
    \A p \in Places(before) :
      CircularAt(before, p) =>
        VarAt(doc, p).valuesByMode = VarAt(before, p).valuesByMode

\* C14, amended: a repair pass changes a value of a variable whose alias
\* chain is classified Circular only where the variable holds, for another
\* mode, an external alias or a white direct colour: v1 and v2 of
\* fix_external_references then overwrite all its modes, the aliases of the
\* cycle included, the pass of fix_figma_variable_colors the external alias,
\* and the white repairs the white value; without such a value the variable
\* is left unmodified.
C14_CircularKept ==
  lastPass # "none" =>
    \A p \in Places(before) :
      CircularAt(before, p) =>
        LET old == VarAt(before, p)
            new == VarAt(doc, p)
        IN
        /\ DOMAIN new.valuesByMode = DOMAIN old.valuesByMode
        /\ \A m \in DOMAIN old.valuesByMode :
             new.valuesByMode[m] # old.valuesByMode[m] =>
               \/ /\ lastPass \in ExternalPasses
                  /\ HoldsForeignAlias(old)
                  /\ ~SkippedByExternalPass(before, old)
               \/ /\ lastPass = "fix_figma_variable_colors.fix_external_references"
                  /\ IsForeignAlias(old.valuesByMode[m])
               \/ /\ lastPass \in WhitePasses
                  /\ IsWhiteColor(old.valuesByMode[m])

\* a pass has changed the document and left a variable on a cycle as it was
C14_Witness ==
  /\ lastPass # "none"
  /\ doc # before
  /\ CircularAt(before, <<1, 1>>)
  /\ VarAt(doc, <<1, 1>>) = VarAt(before, <<1, 1>>)


\* C15: a repair pass keeps the structure of the document: the sequence of
\* collections, each collection's id, name and mode list, each variable's
\* id, name and resolvedType, and the mode ids keyed in each valuesByMode
\* are after the pass what they were before it.
C15_StructureKept ==
  lastPass # "none" =>
    /\ DOMAIN doc.collections = DOMAIN before.collections
    /\ \A ci \in DOMAIN before.collections :
         LET old == before.collections[ci]
             new == doc.collections[ci]
         IN
         /\ DOMAIN new = DOMAIN old
         /\ new.id = old.id /\ new.name = old.name /\ new.modes = old.modes
         /\ DOMAIN new.variables = DOMAIN old.variables
         /\ \A vi \in DOMAIN old.variables :
              /\ DOMAIN new.variables[vi] = DOMAIN old.variables[vi]
              /\ new.variables[vi].id = old.variables[vi].id
              /\ new.variables[vi].name = old.variables[vi].name
              /\ new.variables[vi].resolvedType = old.variables[vi].resolvedType
              /\ DOMAIN new.variables[vi].valuesByMode =
                   DOMAIN old.variables[vi].valuesByMode

\* fix_all_white_colors has repainted one of the two modes of a variable
C15_Witness ==
  /\ lastPass = "fix_all_white_colors"
  /\ \E p \in Places(before) :
       \E m, n \in DOMAIN VarAt(before, p).valuesByMode :
         /\ VarAt(doc, p).valuesByMode[m] # VarAt(before, p).valuesByMode[m]
         /\ VarAt(doc, p).valuesByMode[n] = VarAt(before, p).valuesByMode[n]


----------------------------------------------------------------------------
(* Properties of validate_collection *)

\* the collection the held report is about, when it is a report without
\* 'error'
Reported(c) ==
  /\ "collection_name" \in DOMAIN report
  /\ report.collection_name = c.name
  /\ "error" \notin DOMAIN report

\* the mode-m chain of x ends, after k aliases, at a direct colour
EndsAtColor(idx, x, m, k) ==
  LET y == ChainAt(idx, x, m, k) IN
  /\ y \in DOMAIN idx
  /\ m \in DOMAIN idx[y].valuesByMode
  /\ idx[y].valuesByMode[m].py = "dict"
  /\ "r" \in DOMAIN idx[y].valuesByMode[m].d

Resolves(idx, x, m) ==
  \E k \in 0..Cardinality(DOMAIN idx) : EndsAtColor(idx, x, m, k)

\* the colour the mode-m chain of x ends at
FinalColor(idx, x, m) ==
  LET k == CHOOSE j \in 0..Cardinality(DOMAIN idx) : EndsAtColor(idx, x, m, j)
  IN idx[ChainAt(idx, x, m, k)].valuesByMode[m]

\* C16: validate_collection resolves every variable once, for the mode id of
\* the collection's first declared mode: total_variables is the number of
\* variables and valid_chains the number of those whose first-mode chain
\* ends at a colour, whatever their chains for the other modes do.
C16_FirstModeOnly ==
  \A ci \in DOMAIN doc.collections :
    LET c == doc.collections[ci] IN
    Reported(c) =>
      /\ report.total_variables = Len(c.variables)
      /\ report.valid_chains =
           Cardinality({i \in DOMAIN c.variables :
                          Resolves(variables_by_id(doc), c.variables[i].id,
                                   c.modes[1].modeId)})

\* the two variables of "9 Theme" are counted valid though neither resolves
\* for the second mode
C16_Witness ==
  /\ Reported(doc.collections[1])
  /\ report.valid_chains = 2
  /\ \A i \in 1..2 :
       ~Resolves(variables_by_id(doc), doc.collections[1].variables[i].id, "m2")


\* C17: a variable whose chain resolves is counted in white_colors exactly
\* when the colour it ends at has r = g = b = 1.0, whatever its alpha, and in
\* proper_colors otherwise, so that valid_chains = white_colors +
\* proper_colors.
C17_WhiteOrProper ==
  \A ci \in DOMAIN doc.collections :
    LET c == doc.collections[ci]
        idx == variables_by_id(doc)
        valid == {i \in DOMAIN c.variables :
                    Resolves(idx, c.variables[i].id, c.modes[1].modeId)}
        white == {i \in valid :
                    IsWhiteColor(FinalColor(idx, c.variables[i].id, c.modes[1].modeId))}
    IN
    Reported(c) =>
      /\ report.white_colors = Cardinality(white)
      /\ report.proper_colors = Cardinality(valid \ white)
      /\ report.valid_chains = report.white_colors + report.proper_colors

\* "1 Appearance" is reported with its white of alpha 0.08 as the one white
\* colour, beside proper ones
C17_Witness ==
  /\ Reported(Appearance)
  /\ report.white_colors = 1
  /\ report.proper_colors >= 1


\* C18: a report is consistent: total_variables = valid_chains +
\* broken_chains, circular_refs + external_refs <= broken_chains, and
\* broken_examples holds the first min(5, broken_chains) broken variables in
\* the order of the document, each with its name and its resolution path
\* joined by " -> ".
C18_ReportConsistent ==
  \A ci \in DOMAIN doc.collections :
    LET c == doc.collections[ci]
        idx == variables_by_id(doc)
        broken == {i \in DOMAIN c.variables :
                     ~Resolves(idx, c.variables[i].id, c.modes[1].modeId)}
        nth(k) == CHOOSE i \in broken : Cardinality({j \in broken : j <= i}) = k
    IN
    Reported(c) =>
      /\ report.total_variables = report.valid_chains + report.broken_chains
      /\ report.broken_chains = Cardinality(broken)
      /\ report.circular_refs + report.external_refs <= report.broken_chains
      /\ Len(report.broken_examples) =
           IF Cardinality(broken) < 5 THEN Cardinality(broken) ELSE 5
      /\ \A k \in DOMAIN report.broken_examples :
           /\ report.broken_examples[k].variable_name = c.variables[nth(k)].name
           /\ report.broken_examples[k].chain =
                Join(" -> ", resolve_alias_chain(idx, c.variables[nth(k)].id,
                                                 c.modes[1].modeId, {}).path)
           /\ report.broken_examples[k].chain[1] = c.variables[nth(k)].name[1]

\* "1 Appearance" is reported with seven broken variables, a valid one among
\* the first five, and five examples
C18_Witness ==
  /\ Reported(Appearance)
  /\ report.broken_chains = 7
  /\ Len(report.broken_examples) = 5
  /\ report.broken_examples[3].variable_name = <<"Fill", " ", "4">>


\* a value of the shapes the format has not: neither a colour nor an alias
\* with a string id
IsMalformed(val) ==
  ~(/\ val.py = "dict"
    /\ \/ {"r", "g", "b"} \subseteq DOMAIN val.d
       \/ /\ DOMAIN val.d = {"type", "id"}
          /\ val.d.type = "VARIABLE_ALIAS"
          /\ val.d.id # <<"null">>)

\* C19 as stated: validate_all_critical_collections returns a report for
\* each of the six critical collections whatever the document holds: one
\* with 'error' and all counts 0 for a collection that is missing or without
\* modes, and otherwise one that counts every variable, those with a
\* malformed first-mode value as broken.
C19_AsStated ==
  report # NoReport =>
    /\ "all_results" \in DOMAIN report
    /\ DOMAIN report.all_results =
         {"1 Appearance", "2 Fill emphasis", "3 Background Level",
          "4 Interaction state", "9 Theme", "10 Brand"}
    /\ \A n \in DOMAIN report.all_results :
         LET r == report.all_results[n]
             cs == {ci \in DOMAIN doc.collections : doc.collections[ci].name = n}
         IN
         IF cs = {} \/ \A ci \in cs : doc.collections[ci].modes = <<>>
         THEN /\ "error" \in DOMAIN r
              /\ r.total_variables = 0 /\ r.valid_chains = 0 /\ r.broken_chains = 0
         ELSE LET c == doc.collections[CHOOSE ci \in cs : TRUE]
                  m == c.modes[1].modeId
              IN /\ "error" \notin DOMAIN r
                 /\ r.total_variables = Len(c.variables)
                 /\ r.broken_chains >=
                      Cardinality({i \in DOMAIN c.variables :
                                     /\ m \in DOMAIN c.variables[i].valuesByMode
                                     /\ IsMalformed(c.variables[i].valuesByMode[m])})


----------------------------------------------------------------------------
(* Fallback of the external-reference repairs *)

PalettePass == "fix_figma_variable_colors.fix_external_references"

\* the pass finds no colour for the family and step of the name: no working
\* variable (v1), no table entry (v2), no palette entry (the palette pass)
Unmatched(name) ==
  LET parts == Split(name) IN
  CASE lastPass = "fix_external_references" ->
         parts[1] \o <<"/">> \o parts[2]
           \notin DOMAIN extract_rgb_values_from_working_vars(Semi(before))
    [] lastPass = "fix_external_references_v2" ->
         \A i \in DOMAIN COLOR_RGB_MAP : ~StartsWith(parts[1], COLOR_RGB_MAP[i].key)
    [] OTHER ->
         \/ Lower(parts[1]) \notin DOMAIN palette
         \/ parts[2] \notin DOMAIN palette[Lower(parts[1])]

\* C20 as stated: each of the three external-reference repairs replaces an
\* external alias whose colour family and step have no match by the default
\* white direct colour (for the names the repairs parse: three parts or
\* more, no "[Semi semantics]").
C20_AsStated ==
  lastPass \in ExternalPasses \cup {PalettePass} =>
    \A vi \in DOMAIN Semi(before).variables :
      LET old == Semi(before).variables[vi]
          new == Semi(doc).variables[vi]
      IN
      \A m \in DOMAIN old.valuesByMode :
        (/\ IsForeignAlias(old.valuesByMode[m])
         /\ ~SkippedByExternalPass(before, old)
         /\ Unmatched(old.name))
          => IsWhiteColor(new.valuesByMode[m])

----------------------------------------------------------------------------
(* build_variable_index *)

\* the places (collection, variable) of a document, in the order of the loops
IndexPlaces(d) ==
  UNION {{<<ci, vi>> : vi \in DOMAIN d.collections[ci].variables} :
           ci \in DOMAIN d.collections}

Later(p, q) == q[1] > p[1] \/ (q[1] = p[1] /\ q[2] > p[2])

\* C21: build_variable_index maps every variable id that occurs in the
\* document to the last variable (in collection order, then variable order)
\* carrying that id, annotated with the collection_name, collection_id and
\* modes of that variable's own collection; the document is not modified.
C21_LastWinsAnnotated ==
  index # NoIndex =>
    /\ doc = before
    /\ DOMAIN index.var_index =
         {doc.collections[pl[1]].variables[pl[2]].id : pl \in IndexPlaces(doc)}
    /\ \A pl \in IndexPlaces(doc) :
         LET c == doc.collections[pl[1]]
             v == c.variables[pl[2]]
             e == index.var_index[v.id]
         IN (\A q \in IndexPlaces(doc) :
               Later(pl, q) => doc.collections[q[1]].variables[q[2]].id # v.id)
            => /\ DOMAIN e = DOMAIN v \cup {"collection_name", "collection_id", "modes"}
               /\ \A k \in DOMAIN v : e[k] = v[k]
               /\ e.collection_name = c.name
               /\ e.collection_id = c.id
               /\ e.modes = c.modes

\* an id carried by a variable of each collection, with different values,
\* has been indexed
C21_Witness ==
  /\ index # NoIndex
  /\ \E p \in IndexPlaces(doc), q \in IndexPlaces(doc) :
       /\ q[1] > p[1]
       /\ doc.collections[p[1]].variables[p[2]].id = doc.collections[q[1]].variables[q[2]].id
       /\ doc.collections[p[1]].variables[p[2]].valuesByMode
            # doc.collections[q[1]].variables[q[2]].valuesByMode

----------------------------------------------------------------------------
(* trace_complete_chain *)

\* the alias target of the i-th mode of an indexed variable, NullId if that
\* mode holds no alias
BranchTarget(var_index, id, i) ==
  LET var == var_index[id] IN
  IF i \in DOMAIN var.modes /\ var.modes[i].modeId \in DOMAIN var.valuesByMode
     /\ IsAlias(var.valuesByMode[var.modes[i].modeId])
  THEN var.valuesByMode[var.modes[i].modeId].d.id
  ELSE NullId

\* the variables a sequence of mode choices leads through, from root on
Walk(var_index, root, choices) ==
  LET at[j \in 0..Len(choices)] ==
        IF j = 0 THEN root
        ELSE IF at[j - 1] \in DOMAIN var_index
             THEN BranchTarget(var_index, at[j - 1], choices[j])
             ELSE NullId
  IN [j \in 0..Len(choices) |-> at[j]]

\* a walk that stays in the index and meets no variable twice
IsBranch(var_index, root, choices) ==
  LET w == Walk(var_index, root, choices) IN
  /\ \A j \in DOMAIN w : w[j] \in DOMAIN var_index
  /\ \A j \in DOMAIN w, k \in DOMAIN w : j # k => w[j] # w[k]

\* the sequences of mode choices no longer than the index
Choices(var_index) ==
  LET modes == UNION {DOMAIN var_index[id].modes : id \in DOMAIN var_index} IN
  UNION {[1..n -> modes] : n \in 0..Cardinality(DOMAIN var_index)}

\* C27: in trace_complete_chain a variable is skipped only when it already
\* occurs among its own ancestors on the current path: the chain holds one
\* entry for every branch (sequence of mode choices) that leads to the
\* variable without meeting a variable twice, so a target traced in one
\* mode's branch is traced again in a sibling mode's branch.
C27_BranchesIndependent ==
  (index # NoIndex /\ chain # NoChain) =>
    \A id \in DOMAIN index.var_index :
      \A root \in TraceIds :
        (chain # <<>> /\ chain[1].id = root) =>
          Cardinality({i \in DOMAIN chain : chain[i].id = id}) =
          Cardinality({c \in Choices(index.var_index) :
                         /\ IsBranch(index.var_index, root, c)
                         /\ Walk(index.var_index, root, c)[Len(c)] = id})

\* both modes of the traced variable alias the same target, which is traced
\* once in each branch
C27_Witness ==
  /\ index # NoIndex /\ chain # NoChain /\ chain # <<>>
  /\ chain[1].id = V1
  /\ BranchTarget(index.var_index, V1, 1) = V2
  /\ BranchTarget(index.var_index, V1, 2) = V2
  /\ Cardinality({i \in DOMAIN chain : chain[i].id = V2}) = 2

----------------------------------------------------------------------------
(* Depth of the recursion of resolve_alias_chain *)

\* C26: for every top-level call of resolve_alias_chain the number of
\* nested calls never exceeds the number of distinct variables in the index
\* plus one, and the returned path has at most that many entries; the
\* visited set alone bounds the recursion: no nested call is ever held back
\* by a cap on the depth.
C26_DepthBounded ==
  LET idx == variables_by_id(doc)
      n == Cardinality(DOMAIN idx)
  IN
  /\ Len(stack) <= n + 1
  /\ (pc = "done" /\ ~IsRaised(ret)) => Len(ret.path) <= n + 1
  /\ (pc = "run" /\ ResolveBody(idx, Top.variable_id, Top.mode_id, visited).kind = "call")
       => Len(stack) < MaxDepth

\* a chain through three variables that ends in a fourth call has returned
\* a path of four entries
C26_Witness ==
  /\ pc = "done"
  /\ ~IsRaised(ret)
  /\ Len(ret.path) = Cardinality(DOMAIN variables_by_id(doc))
  /\ Last(ret.path)[1] \in {"CIRCULAR", "NOT_FOUND"}

----------------------------------------------------------------------------
(* Memoisation of resolve_alias_chain *)

\* what the call of the state returns without a memo table
Unmemoised == resolve_alias_chain(variables_by_id(doc), call.variable_id, call.mode_id, {})

\* the tag of the marker a failed resolution ends in
FailureKind(r) == IF r.success THEN "none" ELSE Last(r.path)[1]

\* C25 as stated: with a memo table keyed by (variable_id, mode_id) and
\* filled with the result of each call as it returns, every top-level call
\* returns the success flag, final value, failure reason and path it
\* returns without the memo, in every order of top-level calls.
C25_AsStated ==
  call # NoCall => ret = Unmemoised

\* C25 as amended: the success flag, the final value and the kind of
\* failure are those of the call without the memo, in every order of
\* top-level calls, and so is the path unless the resolution ends in
\* CIRCULAR.
C25_SameButCircularPath ==
  call # NoCall =>
    /\ ret.success = Unmemoised.success
    /\ ret.value = Unmemoised.value
    /\ FailureKind(ret) = FailureKind(Unmemoised)
    /\ FailureKind(Unmemoised) # "CIRCULAR" => ret.path = Unmemoised.path

\* a call on a variable of a cycle answered from the table: the path is the
\* one recorded inside the call on another variable of the cycle
C25_Witness ==
  /\ call # NoCall
  /\ MemoKey(call.variable_id, call.mode_id) \in DOMAIN memo
  /\ FailureKind(ret) = "CIRCULAR"
  /\ FailureKind(Unmemoised) = "CIRCULAR"
  /\ ret.path # Unmemoised.path

----------------------------------------------------------------------------
(* Classification of the broken chains; the status of the validator *)

\* the collection validate_collection finds under a name
Named(n) == doc.collections[CHOOSE ci \in FindCollection(doc, n) : TRUE]

\* the variables of a collection whose first-mode resolution fails with the
\* marker `tag`
FailedWith(c, tag) ==
  {vi \in DOMAIN c.variables :
     LET res == resolve_alias_chain(variables_by_id(doc), c.variables[vi].id,
                                    c.modes[1].modeId, {})
     IN ~res.success /\ Last(res.path)[1] = tag}

\* C28 as stated: in every report of validate_collection, circular_refs is
\* the number of variables whose first-mode resolution failed because the
\* chain revisits a variable, and external_refs the number whose resolution
\* failed on an external alias target, whatever the names of the variables
\* on the chain are.
C28_AsStated ==
  (report # NoReport /\ ~IsRaised(report)) =>
    \A n \in DOMAIN report.all_results :
      LET r == report.all_results[n] IN
      "error" \notin DOMAIN r =>
        /\ r.circular_refs = Cardinality(FailedWith(Named(n), "CIRCULAR"))
        /\ r.external_refs = Cardinality(FailedWith(Named(n), "EXTERNAL_REF"))

\* C29 as stated: if the validator's main returns status 0 and reports
\* success, every variable of every critical collection present in the
\* document resolves, in that collection's first mode, to a direct colour
\* that is not white.
C29_AsStated ==
  (~IsRaised(status) /\ status.returned = 0 /\ status.success) =>
    \A ci \in DOMAIN doc.collections :
      LET c == doc.collections[ci] IN
      c.name \in {critical_collections[i] : i \in DOMAIN critical_collections} =>
        /\ c.modes # <<>>
        /\ \A vi \in DOMAIN c.variables :
             LET res == resolve_alias_chain(variables_by_id(doc), c.variables[vi].id,
                                            c.modes[1].modeId, {})
             IN /\ ~IsRaised(res)
                /\ res.success
                /\ IsDirectColor(res.value)
                /\ ~IsWhite(res.value)

----------------------------------------------------------------------------
(* Idempotence of the repair passes *)

\* C30: each repair pass is idempotent on the document: fix_all_white_colors,
\* fix_grey_colors and fix_external_references (v1, v2 and the one of
\* fix_figma_variable_colors), applied a second time to its own output with
\* the same palette, changes no value.
C30_Idempotent ==
  /\ lastPass = "fix_external_references" => fix_external_references_v1(doc) = doc
  /\ lastPass = "fix_external_references_v2" => fix_external_references_v2(doc) = doc
  /\ lastPass = PalettePass => fix_external_references_palette(doc, palette) = doc
  /\ lastPass = "fix_grey_colors" => fix_grey_colors(doc, palette[<<"grey">>]) = doc
  /\ lastPass = "fix_all_white_colors" => fix_all_white_colors(doc, palette) = doc

\* a pass has repaired an external alias held in both modes of a variable
C30_Witness ==
  /\ lastPass \in ExternalPasses
  /\ doc # before
  /\ \E vi \in DOMAIN Semi(before).variables :
       /\ \A m \in DOMAIN Semi(before).variables[vi].valuesByMode :
            IsForeignAlias(Semi(before).variables[vi].valuesByMode[m])
       /\ \A m \in DOMAIN Semi(doc).variables[vi].valuesByMode :
            IsDirectColor(Semi(doc).variables[vi].valuesByMode[m])

----------------------------------------------------------------------------
(* oklch_to_rgb *)

\* the parameters of a call 'oklch(L% C H)' with three numerals
IsCall(s, lt, ct, ht) == s = <<"oklch", "(", lt, "%", " ", ct, " ", ht, ")">>

WellFormed(s) ==
  \E lt \in DOMAIN NumberValue, ct \in DOMAIN NumberValue, ht \in DOMAIN NumberValue :
    IsCall(s, lt, ct, ht)

OneExactly == [q |-> Unit, e |-> 0]

\* C22 as stated: oklch_to_rgb maps lightness 0% with chroma 0 to (0,0,0)
\* and lightness 100% with chroma 0 to (1,1,1), for every hue H.
C22_AsStated ==
  converted # NotConverted =>
    \A ht \in DOMAIN NumberValue :
      /\ IsCall(oklch_string, "0", "0", ht) => converted = Black
      /\ IsCall(oklch_string, "100", "0", ht)
           => converted = Returned(<<OneExactly, OneExactly, OneExactly>>)

\* C23 as stated: for every input string that is not a well-formed
\* 'oklch(L% C H)' call with three numeric parameters, oklch_to_rgb returns
\* black (0,0,0) and raises no error.
C23_AsStated ==
  (converted # NotConverted /\ ~WellFormed(oklch_string)) => converted = Black

\* x <= y for two channels
AtMost(x, y) == x.q < y.q \/ (x.q = y.q /\ x.e <= y.e)

\* C24: for all L, C and H, each channel returned by oklch_to_rgb lies in
\* [0,1]: the linear-light value is clamped to [0,1] before the piecewise
\* sRGB gamma encoding is applied.
C24_ChannelsInRange ==
  (converted # NotConverted /\ ~IsRaised(converted)) =>
    \A i \in 1..3 :
      /\ AtMost(Zero, converted.rgb[i])
      /\ AtMost(converted.rgb[i], OneExactly)

\* a colour of chroma 0.4 was converted: one channel came out of the clamp
\* at 0 and another at the top of the range
C24_Witness ==
  /\ converted # NotConverted /\ ~IsRaised(converted)
  /\ \E lt \in DOMAIN NumberValue, ht \in DOMAIN NumberValue :
       IsCall(oklch_string, lt, "0.4", ht)
  /\ \E i \in 1..3 : converted.rgb[i] = Zero
  /\ \E i \in 1..3 : converted.rgb[i].q = Unit

====
